---- MODULE Spec2Model ----
(***************************************************************************)
(* Model of the transaction interpretation pipeline of accounting_app:     *)
(* parser (regex_patterns, amount_parser, date_parser, transaction_parser) *)
(* -> categorizer (rule_engine, category_manager) -> journal               *)
(* (entry_generator) -> ledger (ledger_manager).                           *)
(*                                                                         *)
(* Text is modelled at character level: a string is a sequence of          *)
(* one-character strings, a line is a sequence of tokens (maximal runs of  *)
(* non-blank characters) separated by single blanks, a text is a sequence  *)
(* of lines (the result of text.split('\n')).  Amounts are integers in     *)
(* hundredths (paise); None and the float NaN are separate values.         *)
(***************************************************************************)
EXTENDS Integers, Sequences, FiniteSets, TLC

(***************************************************************************)
(* Characters                                                              *)
(***************************************************************************)
DigitChars == <<"0", "1", "2", "3", "4", "5", "6", "7", "8", "9">>

UpperChars ==
  <<"A", "B", "C", "D", "E", "F", "G", "H", "I", "J", "K", "L", "M",
    "N", "O", "P", "Q", "R", "S", "T", "U", "V", "W", "X", "Y", "Z">>

LowerChars ==
  <<"a", "b", "c", "d", "e", "f", "g", "h", "i", "j", "k", "l", "m",
    "n", "o", "p", "q", "r", "s", "t", "u", "v", "w", "x", "y", "z">>

IsDigit(c) == \E i \in 1..Len(DigitChars) : DigitChars[i] = c

IsUpper(c) == \E i \in 1..Len(UpperChars) : UpperChars[i] = c

IsLower(c) == \E i \in 1..Len(LowerChars) : LowerChars[i] = c

\* str.lower() on one character
LowerChar(c) ==
  IF IsUpper(c)
  THEN LowerChars[CHOOSE i \in 1..Len(UpperChars) : UpperChars[i] = c]
  ELSE c

\* str.upper() on one character
UpperChar(c) ==
  IF IsLower(c)
  THEN UpperChars[CHOOSE i \in 1..Len(LowerChars) : LowerChars[i] = c]
  ELSE c

Lower(s) == [i \in 1..Len(s) |-> LowerChar(s[i])]

Upper(s) == [i \in 1..Len(s) |-> UpperChar(s[i])]

\* the regex class \w
IsWordChar(c) == IsDigit(c) \/ IsUpper(c) \/ IsLower(c) \/ c = "_"

\* the regex class [\d,]
IsDC(c) == IsDigit(c) \/ c = ","

\* s[i..] startswith p
StartsWithAt(s, i, p) ==
  /\ i + Len(p) - 1 <= Len(s)
  /\ \A k \in 1..Len(p) : s[i + k - 1] = p[k]

\* Python's  p in s
Contains(s, p) == \E i \in 1..(Len(s) - Len(p) + 1) : StartsWithAt(s, i, p)

\* re.search(r'\b' + re.escape(p) + r'\b', s)
ContainsWord(s, p) ==
  /\ Len(p) > 0
  /\ \E i \in 1..(Len(s) - Len(p) + 1) :
       /\ StartsWithAt(s, i, p)
       /\ IsWordChar(p[1]) # (i > 1 /\ IsWordChar(s[i - 1]))
       /\ IsWordChar(p[Len(p)])
            # (i + Len(p) <= Len(s) /\ IsWordChar(s[i + Len(p)]))

RECURSIVE JoinTokens(_)
\* ' '.join(tokens)
JoinTokens(toks) ==
  IF Len(toks) = 0 THEN << >>
  ELSE IF Len(toks) = 1 THEN toks[1]
  ELSE toks[1] \o <<" ">> \o JoinTokens(Tail(toks))

RECURSIVE RemoveChar(_, _)
\* s.replace(c, '') for a one-character c
RemoveChar(s, c) ==
  IF Len(s) = 0 THEN << >>
  ELSE IF s[1] = c THEN RemoveChar(Tail(s), c)
  ELSE <<s[1]>> \o RemoveChar(Tail(s), c)

RECURSIVE DigitsValue(_)
\* int() of a sequence of digit characters ('' -> 0)
DigitsValue(s) ==
  IF Len(s) = 0 THEN 0
  ELSE 10 * DigitsValue(SubSeq(s, 1, Len(s) - 1)) + (CHOOSE i \in 1..Len(DigitChars) : DigitChars[i] = s[Len(s)]) - 1

AllDigits(s) == \A i \in 1..Len(s) : IsDigit(s[i])

(***************************************************************************)
(* Values: Optional[float] amounts                                         *)
(***************************************************************************)
NoneAmount == [k |-> "None", v |-> 0]

NaNAmount == [k |-> "nan", v |-> 0]

\* a float with two fraction digits, held in hundredths
Num(cents) == [k |-> "num", v |-> cents]

IsNum(a) == a.k = "num"

\* Python's None for strings and tuples (also the empty tuple: both falsy)
NoneSeq == << >>

(***************************************************************************)
(* parser/amount_parser.py                                                 *)
(***************************************************************************)
\* end of the maximal [\d,]+ run that starts at i
RunEnd(s, i) ==
  CHOOSE j \in i..Len(s) :
    /\ \A k \in i..j : IsDC(s[k])
    /\ (j = Len(s)) \/ ~IsDC(s[j + 1])

\* a match of [\d,]+\.\d{n} starting exactly at i  (n = 0: just [\d,]+)
AmountPatternAt(s, i, n) ==
  /\ i <= Len(s)
  /\ IsDC(s[i])
  /\ LET e == RunEnd(s, i) IN
       \/ n = 0
       \/ /\ e + 1 + n <= Len(s)
          /\ s[e + 1] = "."
          /\ \A k \in 1..n : IsDigit(s[e + 1 + k])

\* re.search(pattern, s).group(), NoneSeq when there is no match
AmountPatternSearch(s, n) ==
  IF \E i \in 1..Len(s) : AmountPatternAt(s, i, n)
  THEN LET i == CHOOSE i \in 1..Len(s) :
                  /\ AmountPatternAt(s, i, n)
                  /\ \A j \in 1..(i - 1) : ~AmountPatternAt(s, j, n)
           e == RunEnd(s, i)
       IN SubSeq(s, i, IF n = 0 THEN e ELSE e + 1 + n)
  ELSE NoneSeq

\* re.search(r'[\d,]*\.?\d+', s): reached only when s has no [\d,] character,
\* so it has no digit to match
DigitsDecimalSearch(s) ==
  IF \E i \in 1..Len(s) : IsDigit(s[i])
  THEN LET i == CHOOSE i \in 1..Len(s) :
                  /\ IsDigit(s[i])
                  /\ \A j \in 1..(i - 1) : ~IsDigit(s[j])
       IN SubSeq(s, i, CHOOSE j \in i..Len(s) :
                          /\ \A k \in i..j : IsDigit(s[k])
                          /\ (j = Len(s)) \/ ~IsDigit(s[j + 1]))
  ELSE NoneSeq

\* AmountParser._clean_amount_string
CleanAmountString(amount_str) ==
  LET s == IF Len(amount_str) >= 2 /\ amount_str[1] = "("
              /\ amount_str[Len(amount_str)] = ")"
           THEN <<"-">> \o SubSeq(amount_str, 2, Len(amount_str) - 1)
           ELSE amount_str
  IN IF AmountPatternSearch(s, 2) # NoneSeq THEN AmountPatternSearch(s, 2)
     ELSE IF AmountPatternSearch(s, 1) # NoneSeq THEN AmountPatternSearch(s, 1)
     ELSE IF AmountPatternSearch(s, 0) # NoneSeq THEN AmountPatternSearch(s, 0)
     ELSE DigitsDecimalSearch(s)

\* float(x) for x made of digits and at most one '.', in hundredths after
\* round(.., 2); NoneAmount stands for the ValueError
FloatOf(x) ==
  LET dot == IF \E i \in 1..Len(x) : x[i] = "."
             THEN CHOOSE i \in 1..Len(x) : x[i] = "."
             ELSE Len(x) + 1
      ip == SubSeq(x, 1, dot - 1)
      fp == SubSeq(x, dot + 1, Len(x))
  IN IF Len(ip) + Len(fp) = 0 \/ ~AllDigits(ip) \/ ~AllDigits(fp)
     THEN NoneAmount
     ELSE Num(100 * DigitsValue(ip)
              + (IF Len(fp) = 0 THEN 0
                 ELSE IF Len(fp) = 1 THEN 10 * DigitsValue(fp)
                 ELSE DigitsValue(SubSeq(fp, 1, 2))))

\* AmountParser.parse_amount
parse_amount(amount_str) ==
  IF Len(amount_str) = 0 THEN NoneAmount
  ELSE LET cleaned == CleanAmountString(amount_str) IN
       IF cleaned = NoneSeq THEN NoneAmount
       ELSE FloatOf(RemoveChar(cleaned, ","))

(***************************************************************************)
(* parser/date_parser.py                                                   *)
(***************************************************************************)
NoneDate == [ok |-> FALSE, y |-> 0, m |-> 0, d |-> 0]

Date(y, m, d) == [ok |-> TRUE, y |-> y, m |-> m, d |-> d]

\* datetime(y, m, d) does not raise
ValidDate(y, m, d) ==
  /\ y >= 1 /\ y <= 9999
  /\ m >= 1 /\ m <= 12
  /\ d >= 1 /\ d <= (IF m = 2 THEN (IF (y % 4 = 0 /\ y % 100 # 0) \/ y % 400 = 0 THEN 29 ELSE 28)
               ELSE IF m \in {4, 6, 9, 11} THEN 30 ELSE 31)

\* positions of the characters of s that belong to seps
SepPositions(s, seps) == {i \in 1..Len(s) : s[i] \in seps}

\* s has the shape  digits sep digits sep digits  with a, b, c digits in the
\* three groups: the numeric date strings the transaction patterns capture
IsNumericDate(s, seps) ==
  LET ps == SepPositions(s, seps) IN
  /\ Cardinality(ps) = 2
  /\ LET p1 == CHOOSE p \in ps : \A q \in ps : p <= q
         p2 == CHOOSE p \in ps : \A q \in ps : q <= p
     IN /\ p1 > 1 /\ p2 > p1 + 1 /\ p2 < Len(s)
        /\ \A i \in 1..Len(s) : i \in ps \/ IsDigit(s[i])

\* the three digit groups and the two separators of a numeric date string
DateParts(s, seps) ==
  LET ps == SepPositions(s, seps)
      p1 == CHOOSE p \in ps : \A q \in ps : p <= q
      p2 == CHOOSE p \in ps : \A q \in ps : q <= p
  IN [a |-> SubSeq(s, 1, p1 - 1), b |-> SubSeq(s, p1 + 1, p2 - 1),
      c |-> SubSeq(s, p2 + 1, Len(s)), s1 |-> s[p1], s2 |-> s[p2]]

AllSeps == {"/", "-", "."}

\* datetime.strptime(s, '%d<sep>%m<sep>%Y') or '...%y' over the date_patterns
\* list: first format that parses
StrptimeDayFirst(s) ==
  IF ~IsNumericDate(s, AllSeps) THEN NoneDate
  ELSE LET p == DateParts(s, AllSeps)
           d == DigitsValue(p.a)
           m == DigitsValue(p.b)
           c == DigitsValue(p.c)
       IN IF p.s1 # p.s2 \/ Len(p.a) > 2 \/ Len(p.b) > 2 THEN NoneDate
          ELSE IF Len(p.c) = 4 /\ ValidDate(c, m, d) THEN Date(c, m, d)
          ELSE IF Len(p.c) = 2 /\ p.s1 \in {"/", "-"}
                  /\ ValidDate(IF c < 69 THEN 2000 + c ELSE 1900 + c, m, d)
               THEN Date(IF c < 69 THEN 2000 + c ELSE 1900 + c, m, d)
          ELSE NoneDate

\* datetime.strptime with the year-first formats '%Y/%m/%d', '%Y-%m-%d'
StrptimeYearFirst(s) ==
  IF ~IsNumericDate(s, {"/", "-"}) THEN NoneDate
  ELSE LET p == DateParts(s, {"/", "-"})
           y == DigitsValue(p.a)
           m == DigitsValue(p.b)
           d == DigitsValue(p.c)
       IN IF p.s1 = p.s2 /\ Len(p.a) = 4 /\ Len(p.b) <= 2 /\ Len(p.c) <= 2
             /\ ValidDate(y, m, d)
          THEN Date(y, m, d) ELSE NoneDate

\* dateutil.parser.parse(s, dayfirst=True) on a numeric date string whose last
\* group is a four-digit year: day first, swapped when the month is above 12
DateutilParse(s) ==
  IF ~IsNumericDate(s, AllSeps) THEN NoneDate
  ELSE LET p == DateParts(s, AllSeps)
           a == DigitsValue(p.a)
           b == DigitsValue(p.b)
           y == DigitsValue(p.c)
       IN IF Len(p.c) # 4 \/ Len(p.a) > 2 \/ Len(p.b) > 2 THEN NoneDate
          ELSE IF ValidDate(y, b, a) THEN Date(y, b, a)
          ELSE IF b > 12 /\ ValidDate(y, a, b) THEN Date(y, a, b)
          ELSE NoneDate

\* DateParser._manual_date_parse
manual_date_parse(s) ==
  LET Try(sep) ==
        IF IsNumericDate(s, {sep}) /\ SepPositions(s, AllSeps \ {sep}) = {}
        THEN LET p == DateParts(s, {sep})
                 d == DigitsValue(p.a)
                 m == DigitsValue(p.b)
                 y0 == DigitsValue(p.c)
                 y == IF y0 < 100 THEN (IF y0 < 50 THEN 2000 + y0 ELSE 1900 + y0)
                      ELSE y0
             IN IF d >= 1 /\ d <= 31 /\ m >= 1 /\ m <= 12 /\ ValidDate(y, m, d)
                THEN Date(y, m, d) ELSE NoneDate
        ELSE NoneDate
  IN IF Try("/").ok THEN Try("/")
     ELSE IF Try("-").ok THEN Try("-")
     ELSE Try(".")

\* DateParser.parse_date
parse_date(date_str) ==
  IF Len(date_str) = 0 THEN NoneDate
  ELSE IF StrptimeDayFirst(date_str).ok THEN StrptimeDayFirst(date_str)
  ELSE IF StrptimeYearFirst(date_str).ok THEN StrptimeYearFirst(date_str)
  ELSE IF DateutilParse(date_str).ok THEN DateutilParse(date_str)
  ELSE manual_date_parse(date_str)

(***************************************************************************)
(* parser/regex_patterns.py                                                *)
(*                                                                         *)
(* Every pattern is anchored (^...$) and separates its groups by \s+, so   *)
(* on a stripped line whose tokens are separated by single blanks a group  *)
(* boundary is a token boundary; the lazy description group (.*?) takes    *)
(* the fewest tokens for which the rest of the pattern matches.            *)
(***************************************************************************)
\* \d{1,2}<sep>\d{1,2}<sep>\d{lo,4} as a whole token
DateRe(t, seps, lo) ==
  /\ IsNumericDate(t, seps)
  /\ LET p == DateParts(t, seps) IN
       /\ Len(p.a) <= 2 /\ Len(p.b) <= 2
       /\ Len(p.c) >= lo /\ Len(p.c) <= 4

\* [\d,]+\.?\d{0,2} as a whole token
AmountRe(t) ==
  /\ Len(t) > 0
  /\ IsDC(t[1])
  /\ LET e == RunEnd(t, 1) IN
       \/ e = Len(t)
       \/ /\ t[e + 1] = "."
          /\ Len(t) - (e + 1) <= 2
          /\ \A k \in (e + 2)..Len(t) : IsDigit(t[k])

\* length of the greedy match of [\d,]+\.?\d{0,2} at the start of t (0: none)
AmountPrefixLen(t) ==
  IF Len(t) = 0 \/ ~IsDC(t[1]) THEN 0
  ELSE LET e == RunEnd(t, 1)
           d == IF e < Len(t) /\ t[e + 1] = "." THEN e + 1 ELSE e
       IN IF d + 2 <= Len(t) /\ IsDigit(t[d + 1]) /\ IsDigit(t[d + 2]) THEN d + 2
          ELSE IF d + 1 <= Len(t) /\ IsDigit(t[d + 1]) THEN d + 1
          ELSE d

\* (CR|DR|Cr|Dr) under re.IGNORECASE
TypeRe(s) == Upper(s) \in {<<"C", "R">>, <<"D", "R">>}

\* the token starts with a type, the rest of it belongs to the trailing (.*)
TypePrefix(t) == Len(t) >= 2 /\ TypeRe(SubSeq(t, 1, 2))

\* the text captured by \s*(.*)$ after the first n characters of token k
RestAfter(line, k, n) ==
  LET r == SubSeq(line[k], n + 1, Len(line[k]))
      more == SubSeq(line, k + 1, Len(line))
  IN IF Len(r) = 0 THEN JoinTokens(more)
     ELSE JoinTokens(<<r>> \o more)

\* smallest element of a non-empty set of integers
MinOf(S) == CHOOSE x \in S : \A y \in S : x <= y

\* ^(date)\s+(.*?)\s+(amount)\s+(CR|DR)\s*(.*)$        : 5 groups
PatDescAmtTypeRest(line, dateOK) ==
  LET C == {i \in 3..(Len(line) - 1) :
              AmountRe(line[i]) /\ TypePrefix(line[i + 1])}
  IN IF dateOK /\ C # {}
     THEN LET i == MinOf(C) IN
          <<line[1], JoinTokens(SubSeq(line, 2, i - 1)), line[i],
            SubSeq(line[i + 1], 1, 2), RestAfter(line, i + 1, 2)>>
     ELSE NoneSeq

\* ^(date)\s+(.*?)\s+(CR|DR)\s+(amount)\s*(.*)$        : 5 groups
PatDescTypeAmtRest(line, dateOK) ==
  LET C == {i \in 3..(Len(line) - 1) :
              TypeRe(line[i]) /\ AmountPrefixLen(line[i + 1]) > 0}
  IN IF dateOK /\ C # {}
     THEN LET i == MinOf(C)
              n == AmountPrefixLen(line[i + 1])
          IN <<line[1], JoinTokens(SubSeq(line, 2, i - 1)), line[i],
               SubSeq(line[i + 1], 1, n), RestAfter(line, i + 1, n)>>
     ELSE NoneSeq

\* ^(date)\s+(code)\s+(.*?)\s+(amount)\s+(CR|DR)\s*(.*)$ : 6 groups
PatCodeDescAmtTypeRest(line, dateOK, codeOK) ==
  LET C == {i \in 4..(Len(line) - 1) :
              AmountRe(line[i]) /\ TypePrefix(line[i + 1])}
  IN IF dateOK /\ C # {} /\ codeOK
     THEN LET i == MinOf(C) IN
          <<line[1], line[2], JoinTokens(SubSeq(line, 3, i - 1)), line[i],
            SubSeq(line[i + 1], 1, 2), RestAfter(line, i + 1, 2)>>
     ELSE NoneSeq

\* ^(date)\s+(.*?)\s+(CHQ\s+\d+)\s+(amount)\s+(CR|DR)\s*(.*)$ : 6 groups
PatDescChqAmtTypeRest(line, dateOK) ==
  LET C == {j \in 3..(Len(line) - 3) :
              /\ Upper(line[j]) = <<"C", "H", "Q">>
              /\ Len(line[j + 1]) > 0 /\ AllDigits(line[j + 1])
              /\ AmountRe(line[j + 2]) /\ TypePrefix(line[j + 3])}
  IN IF dateOK /\ C # {}
     THEN LET j == MinOf(C) IN
          <<line[1], JoinTokens(SubSeq(line, 2, j - 1)),
            JoinTokens(SubSeq(line, j, j + 1)), line[j + 2],
            SubSeq(line[j + 3], 1, 2), RestAfter(line, j + 3, 2)>>
     ELSE NoneSeq

\* ^(date)\s+(prefix.*?)\s+(amount)\s+(CR|DR)$          : 4 groups
\* (prefix empty: the plain description group)
PatDescAmtTypeEnd(line, dateOK, prefix) ==
  LET n == Len(line) IN
  IF /\ dateOK /\ n >= 4
     /\ AmountRe(line[n - 1]) /\ TypeRe(line[n])
     /\ StartsWithAt(Upper(line[2]), 1, prefix)
  THEN <<line[1], JoinTokens(SubSeq(line, 2, n - 2)), line[n - 1], line[n]>>
  ELSE NoneSeq

\* ^(date)\s+(.*?)\s+(amount)\s+(Cr|Dr)\s+(balance)$    : 5 groups
PatDescAmtTypeBalance(line, dateOK) ==
  LET n == Len(line) IN
  IF /\ dateOK /\ n >= 5
     /\ AmountRe(line[n - 2]) /\ TypeRe(line[n - 1]) /\ AmountRe(line[n])
  THEN <<line[1], JoinTokens(SubSeq(line, 2, n - 3)), line[n - 2],
         line[n - 1], line[n]>>
  ELSE NoneSeq

\* ^(date)\s+(NEFT|IMPS|RTGS).*?\s+(amount)\s+(CR|DR)$  : 4 groups
PatTransferAmtTypeEnd(line, dateOK) ==
  LET n == Len(line) IN
  IF /\ dateOK /\ n >= 4
     /\ AmountRe(line[n - 1]) /\ TypeRe(line[n])
     /\ \E w \in {<<"N", "E", "F", "T">>, <<"I", "M", "P", "S">>,
                  <<"R", "T", "G", "S">>} : StartsWithAt(Upper(line[2]), 1, w)
  THEN <<line[1], SubSeq(line[2], 1, 4), line[n - 1], line[n]>>
  ELSE NoneSeq

\* the pattern lists of RegexPatterns._load_patterns, in configured order;
\* a pattern is named <bank><index>
BankPatterns(bank_type) ==
  IF bank_type = "hdfc" THEN <<"hdfc1", "hdfc2">>
  ELSE IF bank_type = "sbi" THEN <<"sbi1", "sbi2">>
  ELSE IF bank_type = "icici" THEN <<"icici1", "icici2">>
  ELSE IF bank_type = "axis" THEN <<"axis1", "axis2">>
  ELSE IF bank_type = "generic"
       THEN <<"generic1", "generic2", "generic3", "generic4">>
  ELSE << >>

\* pattern.match(line).groups(), NoneSeq when the pattern does not match
PatternMatch(pat, line) ==
  LET d1 == IF Len(line) > 0 THEN line[1] ELSE << >>
      c2 == IF Len(line) > 1 THEN line[2] ELSE << >>
  IN
  CASE pat = "hdfc1" -> PatDescAmtTypeRest(line, DateRe(d1, {"/"}, 2))
    [] pat = "hdfc2" ->
         PatCodeDescAmtTypeRest(line, DateRe(d1, {"/"}, 4),
                                \A k \in 1..Len(c2) :
                                  \/ IsDigit(c2[k]) \/ IsUpper(c2[k])
                                  \/ IsLower(c2[k]) \/ c2[k] \in {"/", "-"})
    [] pat = "sbi1" -> PatDescAmtTypeRest(line, DateRe(d1, {"-"}, 2))
    [] pat = "sbi2" -> PatDescChqAmtTypeRest(line, DateRe(d1, {"-"}, 4))
    [] pat = "icici1" -> PatDescAmtTypeBalance(line, DateRe(d1, {"/"}, 4))
    [] pat = "icici2" ->
         PatDescAmtTypeEnd(line, DateRe(d1, {"/"}, 4), <<"U", "P", "I", "/">>)
    [] pat = "axis1" -> PatDescAmtTypeEnd(line, DateRe(d1, {"/"}, 4), << >>)
    [] pat = "axis2" -> PatTransferAmtTypeEnd(line, DateRe(d1, {"/"}, 4))
    [] pat = "generic1" -> PatDescAmtTypeRest(line, DateRe(d1, {"/", "-"}, 2))
    [] pat = "generic2" -> PatDescTypeAmtRest(line, DateRe(d1, {"/", "-"}, 2))
    [] pat = "generic3" ->
         PatCodeDescAmtTypeRest(line, DateRe(d1, {"/", "-"}, 4),
                                \A k \in 1..Len(c2) :
                                  \/ IsDigit(c2[k]) \/ IsUpper(c2[k])
                                  \/ IsLower(c2[k]))
    \* generic4 needs a line break between the date and the details, and a
    \* line produced by split('\n') has none
    [] pat = "generic4" -> NoneSeq

RECURSIVE FirstMatch(_, _)
\* the loop of match_transaction: groups of the first pattern that matches
FirstMatch(pats, line) ==
  IF Len(pats) = 0 THEN NoneSeq
  ELSE IF PatternMatch(pats[1], line) # NoneSeq
       THEN PatternMatch(pats[1], line)
  ELSE FirstMatch(Tail(pats), line)

\* match_transaction trying the generic patterns before the patterns of the
\* bank
match_transaction_generic_first(line, bank_type) ==
  IF Len(line) = 0 \/ Len(JoinTokens(line)) < 10 THEN NoneSeq
  ELSE FirstMatch(BankPatterns("generic") \o BankPatterns(bank_type), line)

\* RegexPatterns.match_transaction
match_transaction(line, bank_type) ==
  IF Len(line) = 0 \/ Len(JoinTokens(line)) < 10 THEN NoneSeq
  ELSE FirstMatch(BankPatterns(bank_type) \o BankPatterns("generic"), line)

RECURSIVE find_all_transactions(_, _)
\* RegexPatterns.find_all_transactions
find_all_transactions(text, bank_type) ==
  IF Len(text) = 0 THEN << >>
  ELSE LET m == match_transaction(text[1], bank_type) IN
       (IF m # NoneSeq THEN <<m>> ELSE << >>)
         \o find_all_transactions(Tail(text), bank_type)

(***************************************************************************)
(* parser/bank_format_detector.py                                          *)
(***************************************************************************)
\* BankFormatDetector.bank_indicators: (bank, keywords) in registration order
bank_indicators ==
  << [bank |-> "hdfc", keywords |-> <<
        <<"H", "D", "F", "C">>,
        <<"H", "D", "F", "C", " ", "B", "A", "N", "K">>,
        <<"H", "D", "F", "C", " ", "B", "a", "n", "k">> >>],
     [bank |-> "sbi", keywords |-> <<
        <<"S", "B", "I">>,
        <<"S", "T", "A", "T", "E", " ", "B", "A", "N", "K">>,
        <<"S", "t", "a", "t", "e", " ", "B", "a", "n", "k", " ", "o", "f", " ", "I", "n", "d", "i", "a">> >>],
     [bank |-> "icici", keywords |-> <<
        <<"I", "C", "I", "C", "I">>,
        <<"I", "C", "I", "C", "I", " ", "B", "A", "N", "K">>,
        <<"I", "C", "I", "C", "I", " ", "B", "a", "n", "k">> >>],
     [bank |-> "axis", keywords |-> <<
        <<"A", "X", "I", "S">>,
        <<"A", "X", "I", "S", " ", "B", "A", "N", "K">>,
        <<"A", "x", "i", "s", " ", "B", "a", "n", "k">> >>] >>

\* keyword.upper() in text.upper(); no keyword holds a line break
TextContainsUpper(text, keyword) ==
  \E i \in 1..Len(text) : Contains(Upper(JoinTokens(text[i])), Upper(keyword))

\* detect_bank_format returning the bank whose keyword comes first in the
\* text
detect_bank_format_first_in_text(text) ==
  LET at(i, l, p) == \E k \in 1..Len(bank_indicators[i].keywords) :
                       StartsWithAt(Upper(JoinTokens(text[l])), p,
                                    Upper(bank_indicators[i].keywords[k]))
      P == {<<i, l, p>> \in (1..Len(bank_indicators)) \X (1..Len(text)) \X (1..40) :
              at(i, l, p)}
      best == CHOOSE h \in P : \A g \in P :
                h[2] < g[2] \/ (h[2] = g[2] /\ h[3] <= g[3])
  IN IF P = {} THEN "generic" ELSE bank_indicators[best[1]].bank

\* BankFormatDetector.detect_bank_format
detect_bank_format(text) ==
  LET hit(i) == \E k \in 1..Len(bank_indicators[i].keywords) :
                   TextContainsUpper(text, bank_indicators[i].keywords[k])
      H == {i \in 1..Len(bank_indicators) : hit(i)}
  IN IF H = {} THEN "generic" ELSE bank_indicators[MinOf(H)].bank

(***************************************************************************)
(* parser/bank_formats.py: the detector with fallbacks                     *)
(***************************************************************************)
RECURSIVE DateFormatCount(_, _, _)
\* len(re.findall(pattern, text)) for the pattern \d{2} sep \d{2} sep \d{4},
\* counted from position i of the first line on: matches do not overlap and
\* none holds a line break
DateFormatCount(text, i, sep) ==
  IF Len(text) = 0 THEN 0
  ELSE LET s == JoinTokens(text[1]) IN
       IF i + 9 > Len(s) THEN DateFormatCount(Tail(text), 1, sep)
       ELSE IF /\ \A k \in {0, 1, 3, 4, 6, 7, 8, 9} : IsDigit(s[i + k])
               /\ s[i + 2] = sep
               /\ s[i + 5] = sep
            THEN 1 + DateFormatCount(text, i + 10, sep)
       ELSE DateFormatCount(text, i + 1, sep)

\* BankFormatDetector._detect_by_date_format of bank_formats.py: date_patterns
\* lists sbi (dashes) before hdfc, icici and axis (slashes), and max returns
\* the first key with the largest count; "None" when no date is found
detect_by_date_format(text) ==
  LET dashes == DateFormatCount(text, 1, "-")
      slashes == DateFormatCount(text, 1, "/")
  IN IF dashes >= slashes /\ dashes > 0 THEN "sbi"
     ELSE IF slashes > 0 THEN "hdfc"
     ELSE "None"

(***************************************************************************)
(* parser/transaction_parser.py                                            *)
(***************************************************************************)
RECURSIVE LStrip(_)
LStrip(s) ==
  IF Len(s) > 0 /\ s[1] = " " THEN LStrip(Tail(s)) ELSE s

RECURSIVE RStrip(_)
RStrip(s) ==
  IF Len(s) > 0 /\ s[Len(s)] = " " THEN RStrip(SubSeq(s, 1, Len(s) - 1)) ELSE s

\* str.strip()
Strip(s) == LStrip(RStrip(s))

RECURSIVE ReplaceAll(_, _)
\* s.replace(p, '') for a non-empty p
ReplaceAll(s, p) ==
  IF Len(s) = 0 THEN << >>
  ELSE IF StartsWithAt(s, 1, p) THEN ReplaceAll(SubSeq(s, Len(p) + 1, Len(s)), p)
  ELSE <<s[1]>> \o ReplaceAll(Tail(s), p)

\* re.sub(r'^\s*[-*]\s*', '', s)
StripLeadingMark(s) ==
  LET t == LStrip(s) IN
  IF Len(t) > 0 /\ t[1] \in {"-", "*"} THEN LStrip(Tail(t)) ELSE s

\* re.sub(r'\s*[-*]\s*$', '', s)
StripTrailingMark(s) ==
  LET t == RStrip(s) IN
  IF Len(t) > 0 /\ t[Len(t)] \in {"-", "*"}
  THEN RStrip(SubSeq(t, 1, Len(t) - 1)) ELSE s

\* _clean_description leaving a leading or trailing '-' or '*' in place
clean_description_keeping_marks(description, transaction_code) ==
  IF Len(description) = 0 THEN << >>
  ELSE LET d1 == Strip(description)
       IN IF Len(transaction_code) > 0 /\ Contains(d1, transaction_code)
          THEN Strip(ReplaceAll(d1, transaction_code)) ELSE d1

\* TransactionParser._clean_description (re.sub(r'\s+', ' ', ..) changes
\* nothing: the tokens of a description are separated by single blanks)
clean_description(description, transaction_code) ==
  IF Len(description) = 0 THEN << >>
  ELSE LET d1 == Strip(description)
           d2 == IF Len(transaction_code) > 0 /\ Contains(d1, transaction_code)
                 THEN Strip(ReplaceAll(d1, transaction_code)) ELSE d1
       IN StripTrailingMark(StripLeadingMark(d2))

\* expense_keywords, in dict order
expense_keywords ==
  << [category |-> "food", keywords |-> <<
        <<"r", "e", "s", "t", "a", "u", "r", "a", "n", "t">>,
        <<"c", "a", "f", "e">>, <<"f", "o", "o", "d">>,
        <<"s", "n", "a", "c", "k", "s">>, <<"m", "e", "a", "l">>,
        <<"l", "u", "n", "c", "h">>, <<"d", "i", "n", "n", "e", "r">> >>],
     [category |-> "transport", keywords |-> <<
        <<"f", "u", "e", "l">>, <<"p", "e", "t", "r", "o", "l">>,
        <<"b", "u", "s">>, <<"t", "r", "a", "i", "n">>,
        <<"t", "a", "x", "i">>, <<"u", "b", "e", "r">>, <<"o", "l", "a">> >>],
     [category |-> "shopping", keywords |-> <<
        <<"m", "a", "r", "k", "e", "t">>, <<"s", "t", "o", "r", "e">>,
        <<"s", "h", "o", "p">>, <<"p", "u", "r", "c", "h", "a", "s", "e">>,
        <<"b", "u", "y">> >>],
     [category |-> "utility", keywords |-> <<
        <<"e", "l", "e", "c", "t", "r", "i", "c", "i", "t", "y">>,
        <<"w", "a", "t", "e", "r">>,
        <<"i", "n", "t", "e", "r", "n", "e", "t">>,
        <<"m", "o", "b", "i", "l", "e">>, <<"b", "i", "l", "l">> >>] >>

\* any(keyword in s for keyword in keywords)
AnyIn(keywords, s) == \E k \in 1..Len(keywords) : Contains(s, keywords[k])

\* TransactionParser._categorize_transaction
simple_categorize(description, transaction_type) ==
  LET dl == Lower(description)
      E == {i \in 1..Len(expense_keywords) :
              AnyIn(expense_keywords[i].keywords, dl)}
  IN IF AnyIn(<< <<"s", "a", "l", "a", "r", "y">>, <<"i", "n", "t", "e", "r", "e", "s", "t">>, <<"r", "e", "f", "u", "n", "d">>, <<"d", "o", "n", "a", "t", "i", "o", "n">>, <<"g", "r", "a", "n", "t">> >>,
                dl) THEN "income"
     ELSE IF AnyIn(<< <<"n", "e", "f", "t">>, <<"i", "m", "p", "s">>, <<"r", "t", "g", "s">>, <<"u", "p", "i">>, <<"t", "r", "a", "n", "s", "f", "e", "r">> >>,
                dl) THEN "transfer"
     ELSE IF AnyIn(<< <<"a", "t", "m">>, <<"c", "a", "s", "h">>, <<"w", "i", "t", "h", "d", "r", "a", "w", "a", "l">>, <<"w", "d", "l">> >>,
                dl) THEN "cash_withdrawal"
     ELSE IF E # {} THEN expense_keywords[MinOf(E)].category
     ELSE IF transaction_type = <<"C", "R">> THEN "income"
     ELSE "expense"

\* TransactionParser._parse_transaction_match; [absent |-> TRUE] is its None.
\* No statement of its try block raises on a tuple of strings, so the except
\* branch (parsing_errors += 1) is never taken.
parse_transaction_match(match, bank_type) ==
  IF Len(match) \notin {4, 5, 6} THEN [absent |-> TRUE]
  ELSE LET six == (Len(match) = 6)
           date_str == match[1]
           transaction_code == IF six THEN match[2] ELSE << >>
           description0 == IF six THEN match[3] ELSE match[2]
           amount_str == IF six THEN match[4] ELSE match[3]
           type_str0 == IF six THEN match[5] ELSE match[4]
           narration0 == IF six THEN match[6]
                         ELSE IF Len(match) = 5 THEN match[5] ELSE << >>
           date_obj == parse_date(date_str)
           amount == parse_amount(amount_str)
           description == clean_description(description0, transaction_code)
           type_str == Upper(type_str0)
       IN [absent |-> FALSE,
           date |-> date_obj,
           date_original |-> date_str,
           description |-> description,
           transaction_code |-> transaction_code,
           amount |-> amount,
           amount_original |-> amount_str,
           type |-> type_str,
           narration |-> Strip(narration0),
           category |-> simple_categorize(description, type_str),
           bank_type |-> bank_type]

\* TransactionParser.validate_transaction
validate_transaction(t) ==
  /\ t.date.ok \/ Len(t.date_original) > 0
  /\ Len(t.description) > 0
  /\ IsNum(t.amount) /\ t.amount.v # 0
  /\ Len(t.type) > 0
  /\ t.amount.v > 0
  /\ t.type \in {<<"C", "R">>, <<"D", "R">>}

(***************************************************************************)
(* categorizer/rule_engine.py                                              *)
(***************************************************************************)
\* RuleEngine._get_default_categories, in dict (declaration) order; the file
\* config/categories.json is not part of the repository, so the defaults are
\* what _load_categories returns.  A category without a 'patterns' key has
\* patterns << >> (category_data.get('patterns', [])).
default_categories ==
  << [name |-> <<"d", "o", "n", "a", "t", "i", "o", "n", "_", "i", "n", "c", "o", "m", "e">>,
      keywords |-> << <<"d", "o", "n", "a", "t", "i", "o", "n">>, <<"d", "o", "n", "a", "t", "e", "d">>,
                      <<"c", "o", "n", "t", "r", "i", "b", "u", "t", "i", "o", "n">>,
                      <<"c", "h", "a", "r", "i", "t", "y">>, <<"g", "r", "a", "n", "t">>, <<"g", "i", "f", "t">> >>,
      account_name |-> <<"D", "o", "n", "a", "t", "i", "o", "n", " ", "I", "n", "c", "o", "m", "e">>,
      type |-> "income", priority |-> 1,
      patterns |-> << <<"d", "o", "n", "a", "t", "i", "o", "n">>,
                      <<"c", "o", "n", "t", "r", "i", "b", "u", "t", "i", "o", "n">>,
                      <<"c", "h", "a", "r", "i", "t", "y">> >>],
     [name |-> <<"s", "a", "l", "a", "r", "y", "_", "i", "n", "c", "o", "m", "e">>,
      keywords |-> << <<"s", "a", "l", "a", "r", "y">>, <<"p", "a", "y", "r", "o", "l", "l">>,
                      <<"w", "a", "g", "e", "s">>, <<"s", "t", "i", "p", "e", "n", "d">>,
                      <<"c", "o", "m", "p", "e", "n", "s", "a", "t", "i", "o", "n">> >>,
      account_name |-> <<"S", "a", "l", "a", "r", "y", " ", "I", "n", "c", "o", "m", "e">>,
      type |-> "income", priority |-> 1, patterns |-> << >>],
     [name |-> <<"f", "o", "o", "d", "_", "e", "x", "p", "e", "n", "s", "e">>,
      keywords |-> << <<"r", "e", "s", "t", "a", "u", "r", "a", "n", "t">>, <<"c", "a", "f", "e">>,
                      <<"f", "o", "o", "d">>, <<"s", "n", "a", "c", "k", "s">>, <<"s", "a", "m", "o", "s", "a">>,
                      <<"m", "e", "a", "l">>, <<"l", "u", "n", "c", "h">>, <<"d", "i", "n", "n", "e", "r">> >>,
      account_name |-> <<"F", "o", "o", "d", " ", "E", "x", "p", "e", "n", "s", "e">>,
      type |-> "expense", priority |-> 2, patterns |-> << >>],
     [name |-> <<"t", "r", "a", "n", "s", "p", "o", "r", "t", "_", "e", "x", "p", "e", "n", "s", "e">>,
      keywords |-> << <<"f", "u", "e", "l">>, <<"p", "e", "t", "r", "o", "l">>, <<"d", "i", "e", "s", "e", "l">>,
                      <<"b", "u", "s">>, <<"t", "r", "a", "i", "n">>, <<"m", "e", "t", "r", "o">>,
                      <<"t", "a", "x", "i">>, <<"u", "b", "e", "r">>, <<"o", "l", "a">> >>,
      account_name |-> <<"T", "r", "a", "n", "s", "p", "o", "r", "t", " ", "E", "x", "p", "e", "n", "s", "e">>,
      type |-> "expense", priority |-> 2, patterns |-> << >>],
     [name |-> <<"c", "a", "s", "h", "_", "w", "i", "t", "h", "d", "r", "a", "w", "a", "l">>,
      keywords |-> << <<"a", "t", "m">>, <<"c", "a", "s", "h">>, <<"w", "i", "t", "h", "d", "r", "a", "w", "a", "l">>,
                      <<"w", "d", "l">>,
                      <<"c", "a", "s", "h", " ", "w", "i", "t", "h", "d", "r", "a", "w">> >>,
      account_name |-> <<"C", "a", "s", "h", " ", "A", "c", "c", "o", "u", "n", "t">>,
      type |-> "transfer", priority |-> 1, patterns |-> << >>],
     [name |-> <<"b", "a", "n", "k", "_", "t", "r", "a", "n", "s", "f", "e", "r">>,
      keywords |-> << <<"n", "e", "f", "t">>, <<"i", "m", "p", "s">>, <<"r", "t", "g", "s">>,
                      <<"u", "p", "i">>, <<"t", "r", "a", "n", "s", "f", "e", "r">> >>,
      account_name |-> <<"B", "a", "n", "k", " ", "T", "r", "a", "n", "s", "f", "e", "r">>,
      type |-> "transfer", priority |-> 1, patterns |-> << >>],
     [name |-> <<"m", "i", "s", "c", "e", "l", "l", "a", "n", "e", "o", "u", "s">>,
      keywords |-> << >>,
      account_name |-> <<"M", "i", "s", "c", "e", "l", "l", "a", "n", "e", "o", "u", "s">>,
      type |-> "expense", priority |-> 99, patterns |-> << >>] >>

\* Optional[str] category: None
NoCategory == << >>

\* some keyword of the category is a whole word of the description
KeywordHit(cat, description) ==
  \E k \in 1..Len(cat.keywords) : ContainsWord(description, cat.keywords[k])

\* list.sort(key=priority) is stable: the first element after sorting is the
\* earliest-appended one among those of least priority
StableFirstByPriority(cats, M) ==
  CHOOSE i \in M :
    \A j \in M : \/ cats[i].priority < cats[j].priority
                 \/ (cats[i].priority = cats[j].priority /\ i <= j)

\* _exact_keyword_match without the sort: the first match collected wins
exact_keyword_match_unsorted(cats, description) ==
  LET M == {i \in 1..Len(cats) : KeywordHit(cats[i], description)} IN
  IF M = {} THEN NoCategory ELSE cats[MinOf(M)].name

\* RuleEngine._exact_keyword_match (description already lower-cased)
exact_keyword_match(cats, description) ==
  LET M == {i \in 1..Len(cats) : KeywordHit(cats[i], description)} IN
  IF M = {} THEN NoCategory ELSE cats[StableFirstByPriority(cats, M)].name

\* RuleEngine._pattern_match; the configured patterns are plain words, so
\* re.search(pattern, description, re.IGNORECASE) is a substring test
pattern_match(cats, description) ==
  LET M == {i \in 1..Len(cats) :
              \E k \in 1..Len(cats[i].patterns) :
                 Contains(Lower(description), Lower(cats[i].patterns[k]))}
  IN IF M = {} THEN NoCategory ELSE cats[MinOf(M)].name

\* round(x) of a float given in hundredths: nearest integer, ties to even
RoundHalfEven(cents) ==
  LET q == cents \div 100
      r == cents % 100
  IN IF r < 50 THEN q
     ELSE IF r > 50 THEN q + 1
     ELSE IF q % 2 = 0 THEN q ELSE q + 1

\* RuleEngine._amount_based_heuristics, for an amount that round() accepts
amount_based_heuristics(description, amount, transaction_type) ==
  IF Contains(description, <<"a", "t", "m">>)
     /\ RoundHalfEven(amount.v) \in {500, 1000, 2000, 5000, 10000, 20000}
  THEN <<"c", "a", "s", "h", "_", "w", "i", "t", "h", "d", "r", "a", "w", "a", "l">>
  ELSE IF transaction_type = <<"D", "R">> /\ amount.v < 100000
          /\ AnyIn(<< <<"c", "a", "f", "e">>, <<"r", "e", "s", "t", "a", "u", "r", "a", "n", "t">>, <<"f", "o", "o", "d">>, <<"m", "e", "a", "l">>, <<"s", "n", "a", "c", "k">> >>, description)
  THEN <<"f", "o", "o", "d", "_", "e", "x", "p", "e", "n", "s", "e">>
  ELSE IF transaction_type = <<"D", "R">> /\ amount.v <= 50000
          /\ AnyIn(<< <<"f", "u", "e", "l">>, <<"p", "e", "t", "r", "o", "l">>, <<"b", "u", "s">>, <<"t", "a", "x", "i">>, <<"u", "b", "e", "r">> >>, description)
  THEN <<"t", "r", "a", "n", "s", "p", "o", "r", "t", "_", "e", "x", "p", "e", "n", "s", "e">>
  ELSE NoCategory

\* RuleEngine._get_default_category
get_default_category(transaction_type) ==
  IF transaction_type = <<"C", "R">> THEN <<"d", "o", "n", "a", "t", "i", "o", "n", "_", "i", "n", "c", "o", "m", "e">>
  ELSE <<"m", "i", "s", "c", "e", "l", "l", "a", "n", "e", "o", "u", "s">>

\* the value of an exception escaping a call
Raised == [raised |-> TRUE]

\* RuleEngine.categorize_transaction.  similarity is what _similarity_match
\* (TF-IDF cosine similarity above 0.3, an sklearn computation) returns when
\* it is consulted: a category of category_list or None.
rule_categorize_transaction(cats, description, amount, transaction_type, use_ai, matrix_built, similarity) ==
  LET dl == Lower(description)
      exact == exact_keyword_match(cats, dl)
      pat == pattern_match(cats, dl)
  IN IF exact # NoCategory THEN [raised |-> FALSE, category |-> exact]
     ELSE IF pat # NoCategory THEN [raised |-> FALSE, category |-> pat]
     ELSE IF use_ai /\ matrix_built /\ similarity # NoCategory
          THEN [raised |-> FALSE, category |-> similarity]
     ELSE IF ~IsNum(amount) THEN Raised
     ELSE IF amount_based_heuristics(dl, amount, transaction_type) # NoCategory
          THEN [raised |-> FALSE,
                category |-> amount_based_heuristics(dl, amount,
                                                     transaction_type)]
     ELSE [raised |-> FALSE,
           category |-> get_default_category(transaction_type)]

\* the cascade reaches _similarity_match for this description
ReachesSimilarity(cats, description) ==
  /\ exact_keyword_match(cats, Lower(description)) = NoCategory
  /\ pattern_match(cats, Lower(description)) = NoCategory

\* the category record of a name, or an empty one (self.categories.get(c, {}))
CategoryData(cats, name) ==
  IF \E i \in 1..Len(cats) : cats[i].name = name
  THEN cats[CHOOSE i \in 1..Len(cats) : cats[i].name = name]
  ELSE [name |-> name, keywords |-> << >>, account_name |-> << >>,
        type |-> "expense", priority |-> 1, patterns |-> << >>]

\* _calculate_confidence looking for a keyword as a substring before looking
\* for it as a whole word
calculate_confidence_partial_first(cats, description, category) ==
  LET dl == Lower(description)
      kws == CategoryData(cats, category).keywords
  IN IF AnyIn(kws, dl) THEN 70
     ELSE IF \E k \in 1..Len(kws) : ContainsWord(dl, kws[k]) THEN 90
     ELSE IF category \in {<<"m", "i", "s", "c", "e", "l", "l", "a", "n", "e", "o", "u", "s">>, <<"d", "o", "n", "a", "t", "i", "o", "n", "_", "i", "n", "c", "o", "m", "e">>}
     THEN 30
     ELSE 50

\* RuleEngine._calculate_confidence, in hundredths
calculate_confidence(cats, description, category) ==
  LET dl == Lower(description)
      kws == CategoryData(cats, category).keywords
  IN IF \E k \in 1..Len(kws) : ContainsWord(dl, kws[k]) THEN 90
     ELSE IF AnyIn(kws, dl) THEN 70
     ELSE IF category \in {<<"m", "i", "s", "c", "e", "l", "l", "a", "n", "e", "o", "u", "s">>,
                           <<"d", "o", "n", "a", "t", "i", "o", "n", "_", "i", "n", "c", "o", "m", "e">>}
     THEN 30
     ELSE 50

\* RuleEngine._build_keyword_matrix: category_list, one entry per keyword
RECURSIVE build_category_list(_)
build_category_list(cats) ==
  IF Len(cats) = 0 THEN << >>
  ELSE [k \in 1..Len(cats[1].keywords) |-> cats[1].name]
         \o build_category_list(Tail(cats))

\* RuleEngine._build_keyword_matrix for the categories cats: category_list and
\* keyword_matrix.  The matrix is modelled by its number of rows, one per
\* document of the corpus; None is 0 rows.  fit_transform raises for an empty
\* vocabulary (no keyword with a token of two word characters) and the except
\* branch then sets the matrix to None, leaving category_list as built.
build_keyword_matrix(cats) ==
  LET category_list == build_category_list(cats)
      word(c) == IsUpper(c) \/ IsLower(c) \/ IsDigit(c) \/ c = "_"
      vocabulary ==
        \E c \in 1..Len(cats) : \E k \in 1..Len(cats[c].keywords) :
          \E i \in 1..(Len(cats[c].keywords[k]) - 1) :
            word(cats[c].keywords[k][i]) /\ word(cats[c].keywords[k][i + 1])
  IN [categories |-> cats,
      category_list |-> category_list,
      keyword_matrix |-> IF vocabulary THEN Len(category_list) ELSE 0]

\* add_custom_category storing the category without rebuilding the index
add_custom_category_without_rebuild(engine, category_name, keywords, account_name, category_type, priority) ==
  LET data == [name |-> category_name, keywords |-> keywords,
               account_name |-> account_name, type |-> category_type,
               priority |-> priority, patterns |-> << >>]
      cats == engine.categories
      S == {i \in 1..Len(cats) : cats[i].name = category_name}
  IN [engine EXCEPT !.categories =
        IF S # {} THEN [i \in 1..Len(cats) |-> IF i \in S THEN data ELSE cats[i]]
        ELSE Append(cats, data)]

\* RuleEngine.add_custom_category: self.categories[category_name] = {...}
\* replaces the value of an existing key in place and appends a new key (a
\* dict keeps insertion order); a custom category has no 'patterns' key,
\* which reads as the empty list; then the index is rebuilt
add_custom_category(engine, category_name, keywords, account_name, category_type, priority) ==
  LET data == [name |-> category_name, keywords |-> keywords,
               account_name |-> account_name, type |-> category_type,
               priority |-> priority, patterns |-> << >>]
      cats == engine.categories
      S == {i \in 1..Len(cats) : cats[i].name = category_name}
  IN build_keyword_matrix(
       IF S # {} THEN [i \in 1..Len(cats) |-> IF i \in S THEN data ELSE cats[i]]
       ELSE Append(cats, data))

(***************************************************************************)
(* journal/entry_generator.py                                              *)
(***************************************************************************)
\* the characters that are not ASCII are named by their code point
Rupee == "U+20B9"

\* the placeholder of the account templates
Placeholder == <<"{", "a", "c", "c", "o", "u", "n", "t", "_", "n", "a", "m", "e", "}">>

RECURSIVE ReplaceWith(_, _, _)
\* s.replace(p, r) for a non-empty p
ReplaceWith(s, p, r) ==
  IF Len(s) = 0 THEN << >>
  ELSE IF StartsWithAt(s, 1, p)
       THEN r \o ReplaceWith(SubSeq(s, Len(p) + 1, Len(s)), p, r)
  ELSE <<s[1]>> \o ReplaceWith(Tail(s), p, r)

\* template.format(account_name=name)
FormatTemplate(template, name) == ReplaceWith(template, Placeholder, name)

\* str.title()
Title(s) ==
  [i \in 1..Len(s) |->
     IF i = 1 \/ ~(IsUpper(s[i - 1]) \/ IsLower(s[i - 1])) THEN UpperChar(s[i]) ELSE LowerChar(s[i])]

\* JournalEntryGenerator._get_default_account_mapping: 'account_types'
default_account_types ==
  [income |-> [debit |-> <<"B", "a", "n", "k", " ", "A", "c", "c", "o", "u", "n", "t">>,
               credit |-> <<"T", "o", " ", "{", "a", "c", "c", "o", "u", "n", "t", "_", "n", "a", "m", "e", "}">>],
   expense |-> [debit |-> Placeholder,
                credit |-> <<"T", "o", " ", "B", "a", "n", "k", " ", "A", "c", "c", "o", "u", "n", "t">>],
   transfer |-> [debit |-> Placeholder,
                 credit |-> <<"T", "o", " ", "B", "a", "n", "k", " ", "A", "c", "c", "o", "u", "n", "t">>],
   asset |-> [debit |-> Placeholder,
              credit |-> <<"T", "o", " ", "B", "a", "n", "k", " ", "A", "c", "c", "o", "u", "n", "t">>],
   liability |-> [debit |-> Placeholder,
                  credit |-> <<"T", "o", " ", "B", "a", "n", "k", " ", "A", "c", "c", "o", "u", "n", "t">>]]

\* JournalEntryGenerator._get_default_account_mapping, the mapping
\* _load_account_mapping returns when config/account_mapping.json does not
\* exist (it is not in the repository)
default_account_mapping ==
  [account_types |-> default_account_types,
   specific_accounts |->
     << [category |-> <<"c", "a", "s", "h", "_", "w", "i", "t", "h", "d", "r", "a", "w", "a", "l">>,
        debit |-> <<"C", "a", "s", "h", " ", "A", "c", "c", "o", "u", "n", "t">>,
        credit |-> <<"T", "o", " ", "B", "a", "n", "k", " ", "A", "c", "c", "o", "u", "n", "t">>],
       [category |-> <<"b", "a", "n", "k", "_", "t", "r", "a", "n", "s", "f", "e", "r">>,
        debit |-> <<"B", "a", "n", "k", " ", "T", "r", "a", "n", "s", "f", "e", "r">>,
        credit |-> <<"T", "o", " ", "B", "a", "n", "k", " ", "A", "c", "c", "o", "u", "n", "t">>],
       [category |-> <<"d", "o", "n", "a", "t", "i", "o", "n", "_", "i", "n", "c", "o", "m", "e">>,
        debit |-> <<"B", "a", "n", "k", " ", "A", "c", "c", "o", "u", "n", "t">>,
        credit |-> <<"T", "o", " ", "D", "o", "n", "a", "t", "i", "o", "n", " ", "I", "n", "c", "o", "m", "e">>],
       [category |-> <<"s", "a", "l", "a", "r", "y", "_", "i", "n", "c", "o", "m", "e">>,
        debit |-> <<"B", "a", "n", "k", " ", "A", "c", "c", "o", "u", "n", "t">>,
        credit |-> <<"T", "o", " ", "S", "a", "l", "a", "r", "y", " ", "I", "n", "c", "o", "m", "e">>],
       [category |-> <<"f", "o", "o", "d", "_", "e", "x", "p", "e", "n", "s", "e">>,
        debit |-> <<"F", "o", "o", "d", " ", "E", "x", "p", "e", "n", "s", "e">>,
        credit |-> <<"T", "o", " ", "B", "a", "n", "k", " ", "A", "c", "c", "o", "u", "n", "t">>],
       [category |-> <<"t", "r", "a", "n", "s", "p", "o", "r", "t", "_", "e", "x", "p", "e", "n", "s", "e">>,
        debit |-> <<"T", "r", "a", "n", "s", "p", "o", "r", "t", " ", "E", "x", "p", "e", "n", "s", "e">>,
        credit |-> <<"T", "o", " ", "B", "a", "n", "k", " ", "A", "c", "c", "o", "u", "n", "t">>] >>]

\* JournalEntryGenerator._load_account_mapping for a mapping file that is
\* "missing", that is "readable" (json.load returns its content), or that is
\* "unreadable" (open or json.load raises; the except branch returns
\* _get_default_accounting_rules())
load_account_mapping(file) ==
  IF file.state = "missing" THEN default_account_mapping
  ELSE IF file.state = "readable" THEN file.content
  ELSE [round_to_decimals |-> 2,
          currency_symbol |-> <<Rupee>>,
          date_format |-> <<"%", "d", "/", "%", "m", "/", "%", "Y">>,
          entry_format |-> <<"d", "o", "u", "b", "l", "e", "_", "e", "n", "t", "r", "y">>,
          narration_style |-> <<"d", "e", "t", "a", "i", "l", "e", "d">>]

\* JournalEntryGenerator._get_category_type
get_category_type(category) ==
  IF AnyIn(<< <<"i", "n", "c", "o", "m", "e">>, <<"s", "a", "l", "a", "r", "y">>, <<"d", "o", "n", "a", "t", "i", "o", "n">>, <<"i", "n", "t", "e", "r", "e", "s", "t">>, <<"r", "e", "f", "u", "n", "d">> >>, Lower(category)) THEN "income"
  ELSE IF AnyIn(<< <<"t", "r", "a", "n", "s", "f", "e", "r">>, <<"w", "i", "t", "h", "d", "r", "a", "w", "a", "l">>, <<"c", "a", "s", "h">> >>, Lower(category)) THEN "transfer"
  ELSE "expense"

\* JournalEntryGenerator._get_account_names: <<debit_account, credit_account>>
get_account_names(mapping, category, transaction_type) ==
  LET sp == IF "specific_accounts" \in DOMAIN mapping
            THEN mapping.specific_accounts ELSE << >>
      S == {i \in 1..Len(sp) : sp[i].category = category}
  IN IF S # {}
     THEN <<sp[MinOf(S)].debit, sp[MinOf(S)].credit>>
     ELSE LET category_type == get_category_type(category)
              has == /\ "account_types" \in DOMAIN mapping
                     /\ category_type \in DOMAIN mapping.account_types
              templates == mapping.account_types[category_type]
          IN IF transaction_type = <<"C", "R">>
             THEN <<IF has THEN templates.debit ELSE <<"B", "a", "n", "k", " ", "A", "c", "c", "o", "u", "n", "t">>,
                    FormatTemplate(IF has THEN templates.credit
                                   ELSE <<"T", "o", " ", "{", "a", "c", "c", "o", "u", "n", "t", "_", "n", "a", "m", "e", "}">>,
                                   Title(category))>>
             ELSE <<FormatTemplate(IF has THEN templates.debit
                                   ELSE Placeholder, Title(category)),
                    IF has THEN templates.credit ELSE <<"T", "o", " ", "B", "a", "n", "k", " ", "A", "c", "c", "o", "u", "n", "t">>>>

RECURSIVE IntDigits(_)
\* str(n) for n >= 0
IntDigits(n) ==
  IF n < 10 THEN <<DigitChars[n + 1]>>
  ELSE IntDigits(n \div 10) \o <<DigitChars[(n % 10) + 1]>>

RECURSIVE GroupThousands(_)
\* the ',' grouping of the format specification ',.2f'
GroupThousands(ds) ==
  IF Len(ds) <= 3 THEN ds
  ELSE GroupThousands(SubSeq(ds, 1, Len(ds) - 3)) \o <<",">>
         \o SubSeq(ds, Len(ds) - 2, Len(ds))

\* f"{amount:,.2f}" for a float (a number or NaN); None raises TypeError
FormatFixed2(amount) ==
  IF amount.k = "nan" THEN <<"n", "a", "n">>
  ELSE GroupThousands(IntDigits(amount.v \div 100))
         \o <<".", DigitChars[((amount.v % 100) \div 10) + 1],
              DigitChars[(amount.v % 10) + 1]>>

\* JournalEntryGenerator._format_amount
format_amount_currency(amount) == <<Rupee>> \o FormatFixed2(amount)

\* JournalEntryGenerator._generate_narration, narration_style 'detailed' (the
\* value in _get_default_accounting_rules, which __init__ always installs)
generate_narration(description, amount, transaction_type) ==
  (IF transaction_type = <<"C", "R">> THEN <<"R", "e", "c", "e", "i", "v", "e", "d">>
   ELSE <<"P", "a", "i", "d">>)
    \o <<" ", "f", "o", "r", " ">> \o description
    \o <<" ", "-", " ", "A", "m", "o", "u", "n", "t", ":", " ">> \o <<Rupee>> \o FormatFixed2(amount)

\* generate_journal_entry with the credit side formatted from the amount
\* rounded to whole rupees
generate_journal_entry_rounded_credit(mapping, transaction, category) ==
  IF transaction.amount.k = "None" THEN Raised
  ELSE LET txn_type == Upper(transaction.type)
           formatted_amount == format_amount_currency(transaction.amount)
           names == get_account_names(mapping, category, txn_type)
       IN [raised |-> FALSE,
           date |-> transaction.date,
           date_original |-> transaction.date_original,
           debit_account |-> names[1],
           debit_amount |-> formatted_amount,
           credit_account |-> names[2],
           credit_amount |->
             IF IsNum(transaction.amount)
             THEN format_amount_currency(
                    Num(RoundHalfEven(transaction.amount.v) * 100))
             ELSE formatted_amount,
           narration |-> generate_narration(transaction.description,
                                            transaction.amount, txn_type),
           type |-> IF txn_type = <<"C", "R">> THEN "credit" ELSE "debit",
           transaction_type |-> txn_type,
           category |-> category]

\* JournalEntryGenerator.generate_journal_entry; raises (TypeError from the
\* format specification) when the amount is None.  The three display strings
\* debit_entry, credit_entry and full_entry repeat the account and amount
\* fields and are left out.
generate_journal_entry(mapping, transaction, category) ==
  IF transaction.amount.k = "None" THEN Raised
  ELSE LET txn_type == Upper(transaction.type)
           formatted_amount == format_amount_currency(transaction.amount)
           names == get_account_names(mapping, category, txn_type)
       IN [raised |-> FALSE,
           date |-> transaction.date,
           date_original |-> transaction.date_original,
           debit_account |-> names[1],
           debit_amount |-> formatted_amount,
           credit_account |-> names[2],
           credit_amount |-> formatted_amount,
           narration |-> generate_narration(transaction.description,
                                            transaction.amount, txn_type),
           type |-> IF txn_type = <<"C", "R">> THEN "credit" ELSE "debit",
           transaction_type |-> txn_type,
           category |-> category]

\* JournalEntryGenerator.generate_all_entries: the list of entries, or Raised
\* when generate_journal_entry raises for some row
generate_all_entries(mapping, rows) ==
  LET es == [i \in 1..Len(rows) |->
               generate_journal_entry(mapping, rows[i], rows[i].category)]
  IN IF \E i \in 1..Len(rows) : es[i].raised
     THEN [raised |-> TRUE, entries |-> << >>]
     ELSE [raised |-> FALSE, entries |-> es]

\* float(s): a number, NaN, or NoneAmount for the ValueError
PyFloat(s) ==
  IF Lower(s) = <<"n", "a", "n">> THEN NaNAmount ELSE FloatOf(s)

\* JournalEntryGenerator._parse_amount
generator_parse_amount(amount_str) ==
  LET f == PyFloat(RemoveChar(RemoveChar(amount_str, Rupee), ",")) IN
  IF f = NoneAmount THEN Num(0) ELSE f

(***************************************************************************)
(* journal/ledger_manager.py                                               *)
(***************************************************************************)
\* the three characters the source file of LedgerManager holds where the
\* rupee sign was meant (a UTF-8 rupee sign decoded as cp1252)
RupeeMojibake == <<"U+00E2", "U+201A", "U+00B9">>

\* LedgerManager._parse_amount
ledger_parse_amount(amount_str) ==
  LET f == PyFloat(RemoveChar(ReplaceAll(amount_str, RupeeMojibake), ",")) IN
  IF f = NoneAmount THEN Num(0) ELSE f

\* index of an account in the ordered dict ledger_accounts, 0 when absent
AccountIndex(accounts, name) ==
  IF \E i \in 1..Len(accounts) : accounts[i].account = name
  THEN CHOOSE i \in 1..Len(accounts) : accounts[i].account = name
  ELSE 0

\* ledger_accounts[name].append(posting), creating the account when missing
AppendPosting(accounts, name, posting) ==
  LET i == AccountIndex(accounts, name) IN
  IF i = 0
  THEN Append(accounts, [account |-> name, postings |-> <<posting>>])
  ELSE [accounts EXCEPT ![i].postings = Append(@, posting)]

\* _process_journal_entry with the credit posting taken from credit_amount by
\* the generator's _parse_amount instead of the amount of the debit posting
process_journal_entry_credit_reparsed(accounts, entry) ==
  LET amount == ledger_parse_amount(entry.debit_amount)
      withDebit ==
        AppendPosting(accounts, entry.debit_account,
          [date |-> entry.date, date_original |-> entry.date_original,
           particulars |-> <<"T", "o", " ">> \o entry.credit_account,
           debit |-> amount, credit |-> Num(0),
           narration |-> entry.narration, type |-> "debit"])
  IN AppendPosting(withDebit, entry.credit_account,
       [date |-> entry.date, date_original |-> entry.date_original,
        particulars |-> <<"B", "y", " ">> \o entry.debit_account,
        debit |-> Num(0),
        credit |-> generator_parse_amount(entry.credit_amount),
        narration |-> entry.narration, type |-> "credit"])

\* LedgerManager._process_journal_entry
process_journal_entry(accounts, entry) ==
  LET amount == ledger_parse_amount(entry.debit_amount)
      withDebit ==
        AppendPosting(accounts, entry.debit_account,
          [date |-> entry.date, date_original |-> entry.date_original,
           particulars |-> <<"T", "o", " ">> \o entry.credit_account,
           debit |-> amount, credit |-> Num(0),
           narration |-> entry.narration, type |-> "debit"])
  IN AppendPosting(withDebit, entry.credit_account,
       [date |-> entry.date, date_original |-> entry.date_original,
        particulars |-> <<"B", "y", " ">> \o entry.debit_account,
        debit |-> Num(0), credit |-> amount,
        narration |-> entry.narration, type |-> "credit"])

RECURSIVE update_ledger(_, _)
\* LedgerManager.update_ledger
update_ledger(accounts, journal_entries) ==
  IF Len(journal_entries) = 0 THEN accounts
  ELSE update_ledger(process_journal_entry(accounts, journal_entries[1]),
                     Tail(journal_entries))

\* float addition and subtraction: NaN absorbs
FAdd(a, b) == IF IsNum(a) /\ IsNum(b) THEN Num(a.v + b.v) ELSE NaNAmount

RECURSIVE SumAmounts(_)
\* Series.sum() of a column of floats
SumAmounts(xs) ==
  IF Len(xs) = 0 THEN Num(0)
  ELSE FAdd(xs[1], SumAmounts(Tail(xs)))

\* the 'balance' column computed from the debit column alone
RunningBalances_debit_only(postings, opening_balance) ==
  [k \in 1..Len(postings) |->
     FAdd(opening_balance, SumAmounts([j \in 1..k |-> postings[j].debit]))]

RECURSIVE RunningBalances(_, _)
\* the 'balance' column of LedgerManager._get_single_ledger
RunningBalances(postings, opening_balance) ==
  IF Len(postings) = 0 THEN << >>
  ELSE LET change == IF IsNum(postings[1].debit) /\ IsNum(postings[1].credit)
                     THEN Num(postings[1].debit.v - postings[1].credit.v)
                     ELSE NaNAmount
           b == FAdd(opening_balance, change)
       IN <<b>> \o RunningBalances(Tail(postings), b)

\* an opening balance of 0 whatever was set
OpeningBalance_unset(openings, name) == Num(0)

\* self.opening_balances.get(account_name, 0)
OpeningBalance(openings, name) ==
  IF \E i \in 1..Len(openings) : openings[i].account = name
  THEN openings[CHOOSE i \in 1..Len(openings) : openings[i].account = name]
         .balance
  ELSE Num(0)

\* LedgerManager.set_opening_balance: self.opening_balances[account_name] =
\* balance on the ordered dict
set_opening_balance(openings, account_name, balance) ==
  IF \E i \in 1..Len(openings) : openings[i].account = account_name
  THEN [i \in 1..Len(openings) |->
          IF openings[i].account = account_name
          THEN [account |-> account_name, balance |-> balance]
          ELSE openings[i]]
  ELSE Append(openings, [account |-> account_name, balance |-> balance])

\* LedgerManager.get_trial_balance: one row per account with postings
get_trial_balance(accounts, openings) ==
  [i \in 1..Len(accounts) |->
     LET ps == accounts[i].postings
         bal == RunningBalances(ps, OpeningBalance(openings,
                                                   accounts[i].account))
         closing == bal[Len(bal)]
     IN [account |-> accounts[i].account,
         debit_total |-> SumAmounts([k \in 1..Len(ps) |-> ps[k].debit]),
         credit_total |-> SumAmounts([k \in 1..Len(ps) |-> ps[k].credit]),
         closing_balance |-> closing,
         balance_type |-> IF IsNum(closing) /\ closing.v > 0 THEN "Debit"
                          ELSE "Credit"]]

\* abs(total_debits - total_credits) < 0.01 (False when a total is NaN)
WithinEpsilon(a, b) ==
  /\ IsNum(a) /\ IsNum(b)
  /\ a.v - b.v < 1 /\ b.v - a.v < 1

\* LedgerManager.get_financial_summary: {} (empty |-> TRUE) for an empty
\* trial balance; the income and expense breakdown is left out
get_financial_summary(accounts, openings) ==
  LET tb == get_trial_balance(accounts, openings)
      total_debits == SumAmounts([i \in 1..Len(tb) |-> tb[i].debit_total])
      total_credits == SumAmounts([i \in 1..Len(tb) |-> tb[i].credit_total])
  IN IF Len(tb) = 0
     THEN [empty |-> TRUE, total_debits |-> Num(0), total_credits |-> Num(0),
           accounts_count |-> 0, trial_balance_balanced |-> FALSE]
     ELSE [empty |-> FALSE,
           total_debits |-> total_debits,
           total_credits |-> total_credits,
           accounts_count |-> Len(accounts),
           trial_balance_balanced |-> WithinEpsilon(total_debits,
                                                    total_credits)]

(***************************************************************************)
(* pdf_processor/text_cleaner.py: an extracted text is the sequence of its *)
(* lines, a line the sequence of its tokens, the runs of characters that   *)
(* blanks separate                                                         *)
(***************************************************************************)
\* TextCleaner._basic_cleaning: re.sub(r'\s+', ' ', text) turns the line
\* breaks into blanks, so that r'(\w)-\s*\n\s*(\w)' finds no line break to
\* join words over; a token that loses all its characters leaves no blank
basic_cleaning(txt) ==
  LET kept(c) == \/ IsWordChar(c)
                 \/ c \in {"/", "-", ".", ",", ":", ";", "(", ")", "&", "@",
                           "#", "$", "*"}
      nonempty(tok) == Len(tok) > 0
      all[i \in 0..Len(txt)] == IF i = 0 THEN << >> ELSE all[i - 1] \o txt[i]
  IN CHOOSE r \in {SelectSeq([k \in 1..Len(line) |-> SelectSeq(line[k], kept)],
                             nonempty) : line \in {all[Len(txt)]}} : TRUE

\* TextCleaner._fix_ocr_errors: the replacements of ocr_corrections, then
\* those of common_errors, each applied to the whole text in dict order; no
\* replaced string holds a blank
fix_ocr_errors(line) ==
  LET replacements ==
        << <<<<"|">>, <<"I">>>>, <<<<"0">>, <<"O">>>>, <<<<"1">>, <<"I">>>>, <<<<"5">>, <<"S">>>>,
           <<<<"U+20AC">>, <<"C">>>>, <<<<"U+00A3">>, <<"E">>>>,
           <<<<"U+00A7">>, <<"S">>>>, <<<<"U+00A9">>, <<"C">>>>,
           <<<<"U+00AE">>, <<"R">>>>, <<<<"U+2122">>, <<"T", "M">>>>,
           <<<<"U+00B6">>, <<"P">>>>,
           <<<<"l">>, <<"1">>>>, <<<<"O">>, <<"0">>>>, <<<<"Z">>, <<"2">>>>, <<<<"S">>, <<"5">>>>,
           <<<<"G">>, <<"6">>>>, <<<<"T">>, <<"7">>>>, <<<<"B">>, <<"8">>>>, <<<<"q">>, <<"9">>>>,
           <<<<"U+00A5">>, <<"Y">>>>,
           <<<<"r", "n">>, <<"m">>>>, <<<<"c", "l">>, <<"d">>>>, <<<<"v", "v">>, <<"w">>>>, <<<<"i", "i">>, <<"n">>>>,
           <<<<"i", "j">>, <<"h">>>>, <<<<"1", "o">>, <<"1", "0">>>>, <<<<"l", "O">>, <<"1", "0">>>> >>
      fix(tok) ==
        LET fixed[k \in 0..Len(replacements)] ==
              IF k = 0 THEN tok
              ELSE ReplaceWith(fixed[k - 1], replacements[k][1],
                               replacements[k][2])
        IN fixed[Len(replacements)]
  IN SubSeq([k \in 1..Len(line) |-> fix(line[k])], 1, Len(line))

\* TextCleaner._bank_specific_cleaning
bank_specific_cleaning(line) ==
  LET dig(t, i) == i >= 1 /\ i <= Len(t) /\ IsDigit(t[i])
      nonempty(tok) == Len(tok) > 0
      \* re.sub(r'(?i)\b(term)\b', TERM, text) for the seven terms: a match
      \* of one term is a match before and after the others were replaced
      std(t) ==
        SubSeq([k \in 1..Len(t) |->
                  IF \E term \in {<<"n", "e", "f", "t">>, <<"i", "m", "p", "s">>, <<"r", "t", "g", "s">>, <<"u", "p", "i">>, <<"a", "t", "m">>,
                                  <<"c", "r">>, <<"d", "r">>} :
                       \E i \in 1..(Len(t) - Len(term) + 1) :
                         /\ i <= k /\ k < i + Len(term)
                         /\ Lower(SubSeq(t, i, i + Len(term) - 1)) = term
                         /\ i = 1 \/ ~IsWordChar(t[i - 1])
                         /\ i + Len(term) > Len(t)
                              \/ ~IsWordChar(t[i + Len(term)])
                  THEN UpperChar(t[k]) ELSE t[k]], 1, Len(t))
      \* re.sub(r'(\d{1,2})[\.\-\s](\d{1,2})[\.\-\s](\d{2,4})', r'\1/\2/\3',
      \* text) on the characters t of the text
      slashed(t) ==
        LET sep(i) == i <= Len(t) /\ t[i] \in {".", "-", " "}
            \* the length of \d{1,2} at i before a separator, 0 for none
            dd(i) == IF dig(t, i) /\ sep(i + 1) THEN 1
                     ELSE IF dig(t, i) /\ dig(t, i + 1) /\ sep(i + 2) THEN 2
                     ELSE 0
            p1(i) == i + dd(i)
            p2(i) == p1(i) + 1 + dd(p1(i) + 1)
            dated(i) == /\ dd(i) > 0
                        /\ dd(p1(i) + 1) > 0
                        /\ dig(t, p2(i) + 1) /\ dig(t, p2(i) + 2)
            dateEnd(i) == IF ~dig(t, p2(i) + 3) THEN p2(i) + 2
                          ELSE IF ~dig(t, p2(i) + 4) THEN p2(i) + 3
                          ELSE p2(i) + 4
            \* the matches re.sub takes: the leftmost ones that do not overlap
            taken[i \in 1..Len(t)] ==
              /\ dated(i)
              /\ \A j \in 1..(i - 1) :
                   ~(i - j <= 9 /\ dated(j) /\ dateEnd(j) >= i /\ taken[j])
        IN CHOOSE r \in
             {SubSeq([k \in 1..Len(t) |-> IF k \in seps THEN "/" ELSE t[k]],
                     1, Len(t)) :
                seps \in {UNION {{p1(i), p2(i)} :
                                   i \in {j \in 1..Len(t) : taken[j]}}}} : TRUE
      \* text.split() of the characters t
      tokens(t) ==
        LET starts == {i \in 1..Len(t) :
                         t[i] # " " /\ (i = 1 \/ t[i - 1] = " ")}
            start(k) == CHOOSE i \in starts :
                          Cardinality({j \in starts : j < i}) = k - 1
            stop(i) == CHOOSE e \in i..Len(t) :
                         /\ \A j \in i..e : t[j] # " "
                         /\ e = Len(t) \/ t[e + 1] = " "
        IN SubSeq([k \in 1..Cardinality(starts) |->
                     SubSeq(t, start(k), stop(start(k)))],
                  1, Cardinality(starts))
      without(t, gone) ==
        LET keep(k) == k \notin gone
            idx == SelectSeq([k \in 1..Len(t) |-> k], keep)
        IN SubSeq([j \in 1..Len(idx) |-> t[idx[j]]], 1, Len(idx))
      \* re.sub(r'(\d{1,3}),(\d{3}),(\d{3})', r'\1,\2\3', text)
      regrouped(t) ==
        LET \* the position of the first ',' of a match at i, 0 for none
            c1(i) == IF dig(t, i) /\ i + 1 <= Len(t) /\ t[i + 1] = ","
                     THEN i + 1
                     ELSE IF dig(t, i) /\ dig(t, i + 1)
                             /\ i + 2 <= Len(t) /\ t[i + 2] = "," THEN i + 2
                     ELSE IF dig(t, i) /\ dig(t, i + 1) /\ dig(t, i + 2)
                             /\ i + 3 <= Len(t) /\ t[i + 3] = "," THEN i + 3
                     ELSE 0
            grouped(i) == /\ c1(i) > 0
                          /\ \A k \in 1..3 : dig(t, c1(i) + k)
                          /\ c1(i) + 4 <= Len(t) /\ t[c1(i) + 4] = ","
                          /\ \A k \in 5..7 : dig(t, c1(i) + k)
            extra[i \in 1..(Len(t) + 1)] ==
              IF i > Len(t) THEN {}
              ELSE IF grouped(i) THEN {c1(i) + 4} \cup extra[c1(i) + 8]
              ELSE extra[i + 1]
        IN without(t, extra[1])
      \* re.sub(r'(\d),(\d{3})', r'\1\2', text)
      ungrouped(t) ==
        LET thousands(i) == /\ dig(t, i)
                            /\ i + 1 <= Len(t) /\ t[i + 1] = ","
                            /\ \A k \in 2..4 : dig(t, i + k)
            commas[i \in 1..(Len(t) + 1)] ==
              IF i > Len(t) THEN {}
              ELSE IF thousands(i) THEN {i + 1} \cup commas[i + 5]
              ELSE commas[i + 1]
        IN without(t, commas[1])
  IN CHOOSE r \in
       {SubSeq([k \in 1..Len(toks) |->
                  CHOOSE u \in {ungrouped(g) : g \in {regrouped(toks[k])}} :
                    TRUE], 1, Len(toks)) :
          toks \in {tokens(slashed(chars)) :
                      chars \in {JoinTokens([k \in 1..Len(line) |->
                                               std(line[k])])}}} : TRUE

\* _improve_structure starting a new line at every token that starts with a
\* date
improve_structure_line_per_date(lines) ==
  LET dig(t, i) == i <= Len(t) /\ IsDigit(t[i])
      rest(t, p) == /\ p <= Len(t) /\ t[p] = "/"
                    /\ \/ dig(t, p + 1) /\ p + 2 <= Len(t) /\ t[p + 2] = "/"
                          /\ dig(t, p + 3) /\ dig(t, p + 4)
                       \/ dig(t, p + 1) /\ dig(t, p + 2)
                          /\ p + 3 <= Len(t) /\ t[p + 3] = "/"
                          /\ dig(t, p + 4) /\ dig(t, p + 5)
      dated(t) == \/ dig(t, 1) /\ dig(t, 2) /\ rest(t, 3)
                  \/ dig(t, 1) /\ rest(t, 2)
      all[i \in 0..Len(lines)] ==
        IF i = 0 THEN << >> ELSE all[i - 1] \o lines[i]
      cut(toks) ==
        LET starts == {1} \cup {i \in 1..Len(toks) : dated(toks[i])}
            start(k) == CHOOSE i \in starts :
                          Cardinality({j \in starts : j < i}) = k - 1
        IN [k \in 1..Cardinality(starts) |->
              SubSeq(toks, start(k),
                     IF k = Cardinality(starts) THEN Len(toks)
                     ELSE start(k + 1) - 1)]
  IN CHOOSE r \in {SubSeq(cut(toks), 1, Len(cut(toks))) :
                     toks \in {all[Len(lines)]}} : TRUE

\* TextCleaner._improve_structure: a line that does not start with a date
\* joins the line before it
improve_structure(lines) ==
  LET dig(t, i) == i <= Len(t) /\ IsDigit(t[i])
      \* re.match(r'\d{1,2}/\d{1,2}/\d{2,4}', line), p the position after
      \* the first number
      rest(t, p) == /\ p <= Len(t) /\ t[p] = "/"
                    /\ \/ dig(t, p + 1) /\ p + 2 <= Len(t) /\ t[p + 2] = "/"
                          /\ dig(t, p + 3) /\ dig(t, p + 4)
                       \/ dig(t, p + 1) /\ dig(t, p + 2)
                          /\ p + 3 <= Len(t) /\ t[p + 3] = "/"
                          /\ dig(t, p + 4) /\ dig(t, p + 5)
      dated(t) == \/ dig(t, 1) /\ dig(t, 2) /\ rest(t, 3)
                  \/ dig(t, 1) /\ rest(t, 2)
      cleaned[i \in 0..Len(lines)] ==
        IF i = 0 THEN << >>
        ELSE IF Len(lines[i]) = 0 THEN cleaned[i - 1]
        ELSE IF dated(lines[i][1]) \/ Len(cleaned[i - 1]) = 0
             THEN Append(cleaned[i - 1], lines[i])
        ELSE [cleaned[i - 1] EXCEPT ![Len(cleaned[i - 1])] = @ \o lines[i]]
  IN cleaned[Len(lines)]

\* TextCleaner.clean_extracted_text: the text the four passes leave, of no
\* line for the empty string
clean_extracted_text(txt) ==
  IF \A i \in 1..Len(txt) : Len(txt[i]) = 0 THEN << >>
  ELSE CHOOSE r \in
         {improve_structure(<<d>>) :
            d \in {bank_specific_cleaning(c) :
                     c \in {fix_ocr_errors(b) :
                              b \in {basic_cleaning(txt)}}}} : TRUE

(***************************************************************************)
(* Inputs                                                                  *)
(***************************************************************************)
\* largest number of lines of an input text
MaxLines == 2

\* the lines input texts are made of: well-formed transaction lines of the
\* shapes the patterns know, lines whose amount token is not a number,
\* a line in 'Date Description Type Amount' order, lines without a date or
\* without an amount, and a statement header
InputLines ==
  { << <<"1", "5", "/", "0", "3", "/", "2", "0", "2", "4">>, <<"N", "E", "F", "T">>, <<"f", "r", "o", "m">>,
       <<"J", "o", "h", "n">>, <<"D", "o", "e">>,
       <<"5", "0", "0", "0", ".", "0", "0">>, <<"C", "R">> >>,
    << <<"0", "1", "/", "0", "2", "/", "2", "0", "2", "4">>, <<"A", "T", "M">>,
       <<"2", "0", "0", "0", ".", "0", "0">>, <<"D", "R">> >>,
    << <<"1", "5", "/", "0", "3", "/", "2", "0", "2", "4">>, <<"f", "o", "o", "d">>, <<"a", "t", "m">>,
       <<"3", "5", "0", ".", "5", "0">>, <<"D", "R">> >>,
    << <<"0", "1", "/", "0", "2", "/", "2", "0", "2", "4">>, <<"x", "y", "z">>,
       <<"1", "0", "0", ".", "0", "0">>, <<"c", "r">> >>,
    << <<"1", "5", "/", "0", "3", "/", "2", "0", "2", "4">>, <<"x", "y", "z">>, <<",">>, <<"D", "R">> >>,
    << <<"1", "0", "/", "0", "1", "/", "2", "0", "2", "4">>, <<"s", "a", "l", "a", "r", "y">>, <<"n", "e", "f", "t">>,
       <<",">>, <<"C", "R">> >>,
    << <<"0", "1", "/", "0", "2", "/", "2", "0", "2", "4">>, <<"a", "t", "m">>, <<"C", "R">>,
       <<"5", "0", "0", "0", ".", "0", "0">> >>,
    << <<"1", "5", "/", "1", "3", "/", "2", "0", "2", "4">>, <<"c", "a", "f", "e", "s">>,
       <<"0", ".", "0", "0">>, <<"D", "R">> >>,
    << <<"S", "B", "I">>, <<"H", "D", "F", "C">>, <<"5", "0", "0", "0", ".", "0", "0">>, <<"C", "R">> >>,
    << <<"1", "5", "/", "0", "3", "/", "2", "0", "2", "4">>, <<"x", "y", "z">>, <<"C", "R">> >>,
    << <<"5", "/", "3", "/", "2", "4">>, <<"d", "o", "n", "a", "t", "i", "o", "n", "s">>,
       <<"1", ",", "2", "3", "4", ".", "5", "6">>, <<"D", "R">> >>,
    << <<"2", "0", "/", "0", "3", "/", "2", "0", "2", "4">>, <<"x", "y", "z">>,
       <<"7", "5", "0", ".", "0", "0">>, <<"D", "R">> >>,
    << <<"1", "5", "/", "0", "3", "/", "2", "0", "2", "4">>, <<"-">>, <<"x", "y", "z">>,
       <<"1", "0", "0", ".", "0", "0">>, <<"C", "R">> >> }

\* the input texts: text.split('\n') has between 1 and MaxLines lines of
\* InputLines, or is a transaction wrapped across two lines (the date on the
\* first, the details on the second)
Texts ==
  UNION {[1..n -> InputLines] : n \in 1..MaxLines}
    \cup {<< <<d>>, <<<<"x", "y", "z">>, <<"7", "5", "0", ".", "0", "0">>, t>> >> :
            d \in {<<"2", "0", "/", "0", "3", "/", "2", "0", "2", "4">>, <<"0", "1", "/", "0", "2", "/", "2", "0", "2", "4">>}, t \in {<<"D", "R">>, <<"C", "R">>}}

\* the bank_type arguments of parse_transactions
BankHints == {"auto", "generic", "axis"}

(***************************************************************************)
(* State                                                                   *)
(***************************************************************************)
VARIABLES
  pc,              \* where the application pipeline (process_pdf) stands
  text,            \* the text handed to parse_transactions
  stats,           \* TransactionParser.stats
  transactions,    \* the rows of transactions_df
  categorization,  \* the rows of result_df (category, method, confidence)
  cat_use_ai,      \* the use_ai argument of the last categorization
  cat_similarity,  \* what _similarity_match returned for each row
  journal_entries, \* the list generate_all_entries returned
  ledger_accounts, \* LedgerManager.ledger_accounts (ordered dict)
  opening_balances, \* LedgerManager.opening_balances
  parse_bank_type, \* the bank type parse_transactions worked with
  transaction_matches, \* what find_all_transactions returned to it
  categorization_history, \* CategoryManager.categorization_history
  cm_use_ai,       \* CategoryManager.use_ai
  cm_is_trained,   \* AIClassifier.is_trained
  cm_model,        \* what the fitted classifier predicts
  cm_result,       \* what the last categorize_transaction call returned
  amount_in,       \* the string handed to AmountParser.parse_amount
  text_blocks,     \* the blocks handed to the last parse_transactions_from_blocks call
  returned_stats,  \* the dict the last get_parsing_stats call returned to its caller
  rule_engine,     \* categories, category_list and keyword_matrix of a RuleEngine used directly
  mapping_file,    \* what the generator found at the path of its mapping file
  generator_mapping, \* self.account_mapping of a JournalEntryGenerator used directly
  generated,       \* the entries its generate_journal_entry returned
  amount_out,      \* what parse_amount returned for it
  amount_fmt,      \* what format_amount returned for amount_out
  amount_back,     \* what parse_amount returned for amount_fmt
  raw_text,        \* the extracted text handed to the TextCleaner
  api_calls        \* the number of calls made on an object used directly

\* the state no step of the application pipeline changes
api_vars ==
  <<cm_use_ai, cm_is_trained, cm_model, cm_result, amount_in, text_blocks,
    returned_stats, rule_engine, mapping_file, generator_mapping, generated,
    amount_out, amount_fmt, amount_back, raw_text, api_calls>>

vars ==
  <<pc, text, stats, transactions, categorization, cat_use_ai,
    cat_similarity, journal_entries, ledger_accounts, opening_balances,
    parse_bank_type, transaction_matches, categorization_history, api_vars>>


\* TransactionParser._reset_stats
reset_stats ==
  [total_lines_processed |-> 0, transactions_found |-> 0,
   bank_type_detected |-> "None", parsing_errors |-> 0]

\* get_parsing_stats returning self.stats itself
get_parsing_stats_returning_self(st) == [alias |-> TRUE, value |-> st]

\* TransactionParser.get_parsing_stats: a new dict with the items of
\* self.stats (alias tells whether the dict returned is self.stats itself)
get_parsing_stats(st) == [alias |-> FALSE, value |-> st]

\* the objects AccountingApp.__init__ builds: no classifier is fitted
\* (cm_model is empty), no categorize_transaction call has returned
\* (cm_result is empty) and no string has been handed to parse_amount
Init ==
  /\ pc = "idle"
  /\ text = << >>
  /\ stats = reset_stats
  /\ transactions = << >>
  /\ categorization = << >>
  /\ cat_use_ai = FALSE
  /\ cat_similarity = << >>
  /\ journal_entries = << >>
  /\ ledger_accounts = << >>
  /\ opening_balances = << >>
  /\ parse_bank_type = "None"
  /\ transaction_matches = << >>
  /\ categorization_history = << >>
  /\ cm_use_ai = FALSE
  /\ cm_is_trained = FALSE
  /\ cm_model = << >>
  /\ cm_result = << >>
  /\ amount_in = << >>
  /\ text_blocks = << >>
  /\ returned_stats = [state |-> "none", alias |-> FALSE, value |-> reset_stats]
  /\ rule_engine = [categories |-> << >>, category_list |-> << >>,
                  keyword_matrix |-> 0]
  /\ mapping_file = "None"
  /\ generator_mapping = << >>
  /\ generated = << >>
  /\ amount_out = NoneAmount
  /\ amount_fmt = << >>
  /\ amount_back = NoneAmount
  /\ raw_text = << >>
  /\ api_calls = 0

(***************************************************************************)
(* TransactionParser.parse_transactions                                    *)
(***************************************************************************)
RECURSIVE ParseMatches(_, _)
\* the loop over transaction_matches: the transactions list
ParseMatches(matches, bank_type) ==
  IF Len(matches) = 0 THEN << >>
  ELSE LET t == parse_transaction_match(matches[1], bank_type) IN
       (IF t.absent THEN << >> ELSE <<t>>)
         \o ParseMatches(Tail(matches), bank_type)

\* pd.DataFrame(transactions): a column holding floats and None becomes a
\* float column with NaN for None; a column holding only None keeps None
ToDataFrame(rows) ==
  IF \E i \in 1..Len(rows) : IsNum(rows[i].amount)
  THEN [i \in 1..Len(rows) |->
          IF rows[i].amount = NoneAmount
          THEN [rows[i] EXCEPT !.amount = NaNAmount] ELSE rows[i]]
  ELSE rows

\* the sort key pd.to_datetime(.., errors='coerce') gives a row
DateKey(row) == row.date.y * 10000 + row.date.m * 100 + row.date.d

\* sort_values putting the rows whose date is NaT first
IsSortOrder_nat_first(rows, perm) ==
  \A i, j \in 1..Len(rows) :
    i < j =>
      LET a == rows[perm[i]]
          b == rows[perm[j]]
      IN \/ ~a.date.ok /\ b.date.ok
         \/ a.date.ok /\ b.date.ok /\ DateKey(a) <= DateKey(b)
         \/ ~a.date.ok /\ ~b.date.ok /\ perm[i] < perm[j]

\* df.sort_values('date_temp'): an order of the row indices.  Rows whose date
\* is NaT (the date string was kept) go last in their original order; the
\* default sort is not stable, so rows with equal dates come in any order.
IsSortOrder(rows, perm) ==
  \A i, j \in 1..Len(rows) :
    i < j =>
      LET a == rows[perm[i]]
          b == rows[perm[j]]
      IN \/ a.date.ok /\ ~b.date.ok
         \/ a.date.ok /\ b.date.ok /\ DateKey(a) <= DateKey(b)
         \/ ~a.date.ok /\ ~b.date.ok /\ perm[i] < perm[j]

\* the bank type parse_transactions works with
EffectiveBank(txt, bank_type) ==
  IF bank_type = "auto" THEN detect_bank_format(txt) ELSE bank_type

\* parse_transactions counting every line that matched no pattern as a
\* parsing error
ParseResult_counting_skipped(txt, bank_type) ==
  LET bank == EffectiveBank(txt, bank_type)
      matches == find_all_transactions(txt, bank)
  IN [stats |-> [total_lines_processed |-> Len(txt),
                 transactions_found |-> Len(matches),
                 bank_type_detected |->
                   IF bank_type = "auto" THEN bank ELSE "None",
                 parsing_errors |-> Len(txt) - Len(matches)],
      bank |-> bank, matches |-> matches,
      rows |-> ToDataFrame(ParseMatches(matches, bank))]

\* the stats and the data frame parse_transactions leaves for a text
ParseResult(txt, bank_type) ==
  LET bank == EffectiveBank(txt, bank_type)
      matches == find_all_transactions(txt, bank)
  IN [stats |-> [total_lines_processed |-> Len(txt),
                 transactions_found |-> Len(matches),
                 bank_type_detected |->
                   IF bank_type = "auto" THEN bank ELSE "None",
                 parsing_errors |-> 0],
      bank |-> bank, matches |-> matches,
      rows |-> ToDataFrame(ParseMatches(matches, bank))]

ParseTransactions ==
  /\ pc = "idle"
  /\ \E txt \in Texts, bank_type \in BankHints :
       \E r \in {ParseResult(txt, bank_type)} :
         /\ text' = txt
         /\ stats' = r.stats
         /\ parse_bank_type' = r.bank
         /\ transaction_matches' = r.matches
         /\ \E perm \in Permutations(1..Len(r.rows)) :
              /\ IsSortOrder(r.rows, perm)
              /\ transactions' = [i \in 1..Len(r.rows) |-> r.rows[perm[i]]]
  /\ pc' = "parsed"
  /\ UNCHANGED <<categorization, cat_use_ai, cat_similarity, journal_entries,
                 ledger_accounts, opening_balances, categorization_history,
                 api_vars>>

\* the extracted text is cleaned and the cleaned text parsed, as process_pdf
\* does with the text of a PDF
ProcessExtractedText ==
  /\ pc = "idle"
  /\ \E txt \in Texts :
       \E cleaned \in {clean_extracted_text(txt)}, bank_type \in BankHints :
         \E r \in {ParseResult(cleaned, bank_type)} :
           /\ raw_text' = txt
           /\ text' = cleaned
           /\ stats' = r.stats
           /\ parse_bank_type' = r.bank
           /\ transaction_matches' = r.matches
           /\ \E perm \in Permutations(1..Len(r.rows)) :
                /\ IsSortOrder(r.rows, perm)
                /\ transactions' = [i \in 1..Len(r.rows) |-> r.rows[perm[i]]]
  /\ pc' = "parsed"
  /\ UNCHANGED <<categorization, cat_use_ai, cat_similarity, journal_entries,
                 ledger_accounts, opening_balances, categorization_history,
                 cm_use_ai, cm_is_trained, cm_model, cm_result, amount_in,
                 text_blocks, returned_stats, rule_engine, mapping_file,
                 generator_mapping, generated, amount_out, amount_fmt,
                 amount_back, api_calls>>

CleanerSpec == Init /\ [][ProcessExtractedText]_vars

(***************************************************************************)
(* Categorization                                                          *)
(***************************************************************************)
\* the categories of the rule engine (no custom category is added)
categories == default_categories

\* self.keyword_matrix is not None
keyword_matrix_built == Len(build_category_list(categories)) > 0

\* categorize_transaction accepting the classifier's category from a
\* confidence of 0.7 on
categorize_transaction_threshold_inclusive(history, use_ai, is_trained, model, description, amount, transaction_type) ==
  LET r == rule_categorize_transaction(categories, description, amount,
                                       transaction_type, FALSE,
                                       keyword_matrix_built, NoCategory)
      rule_result ==
        [category |-> r.category, method |-> "rule_based",
         confidence |-> calculate_confidence(categories, description,
                                             r.category),
         description |-> description, amount |-> amount,
         type |-> transaction_type]
      result ==
        IF use_ai /\ is_trained /\ model[description].confidence >= 70
        THEN [category |-> model[description].category, method |-> "ai",
              confidence |-> model[description].confidence,
              description |-> description, amount |-> amount,
              type |-> transaction_type,
              ai_confidence |-> model[description].confidence]
        ELSE rule_result
  IN [raised |-> FALSE, result |-> result, history |-> Append(history, result)]

\* CategoryManager.categorize_transaction on a manager whose call history is
\* history, whose AI mode is use_ai and whose classifier (fitted iff
\* is_trained) predicts model[description]: the dict returned (confidences
\* in hundredths; the key 'ai_confidence' only in an 'ai' result) and the
\* history left, or the exception of the rule engine
categorize_transaction(history, use_ai, is_trained, model, description, amount, transaction_type) ==
  LET r == rule_categorize_transaction(categories, description, amount,
                                       transaction_type, FALSE,
                                       keyword_matrix_built, NoCategory)
  IN IF r.raised
     THEN [raised |-> TRUE, result |-> << >>, history |-> history]
     ELSE LET rule_result ==
                [category |-> r.category, method |-> "rule_based",
                 confidence |-> calculate_confidence(categories, description,
                                                     r.category),
                 description |-> description, amount |-> amount,
                 type |-> transaction_type]
              result ==
                IF use_ai /\ is_trained
                THEN LET ai == model[description] IN
                     IF ai.confidence > 70
                     THEN [category |-> ai.category, method |-> "ai",
                           confidence |-> ai.confidence,
                           description |-> description, amount |-> amount,
                           type |-> transaction_type,
                           ai_confidence |-> ai.confidence]
                     ELSE rule_result
                ELSE rule_result
          IN [raised |-> FALSE, result |-> result,
              history |-> Append(history, result)]

\* CategoryManager.add_feedback: the history with the feedback entry appended;
\* transaction_data is a result dict or a dict without the keys read, now is
\* the clock reading
add_feedback(history, transaction_data, correct_category, now) ==
  LET has(key) == key \in DOMAIN transaction_data IN
  Append(history,
         [description |-> IF has("description") THEN transaction_data.description ELSE << >>,
          amount |-> IF has("amount") THEN transaction_data.amount ELSE Num(0),
          type |-> IF has("type") THEN transaction_data.type ELSE <<"D", "R">>,
          original_category |-> IF has("category") THEN transaction_data.category ELSE << >>,
          correct_category |-> correct_category,
          timestamp |-> now])

\* the rows of a data frame for which the cascade consults _similarity_match
SimilarityRows(rows, use_ai) ==
  {i \in 1..Len(rows) :
     use_ai /\ keyword_matrix_built
       /\ ReachesSimilarity(categories, rows[i].description)}

\* one row of the categorization result
CategorizeRow(row, use_ai, similarity, method) ==
  LET r == rule_categorize_transaction(categories, row.description, row.amount,
                                       row.type, use_ai, keyword_matrix_built,
                                       similarity)
  IN IF r.raised THEN Raised
     ELSE [raised |-> FALSE, category |-> r.category, method |-> method,
           confidence |-> calculate_confidence(categories, row.description,
                                               r.category)]

\* the effect of a categorize_dataframe call on the pipeline
CategorizeAll(use_ai, sim, method) ==
  \E res \in {[i \in 1..Len(transactions) |->
                 CategorizeRow(transactions[i], use_ai, sim[i], method)]} :
    /\ cat_use_ai' = use_ai
    /\ cat_similarity' = sim
    /\ categorization_history' =
         IF method = "rule_based"
         THEN LET done == {i \in 1..Len(res) :
                            \A j \in 1..i : ~res[j].raised}
              IN categorization_history \o
                   [i \in 1..Cardinality(done) |->
                      [category |-> res[i].category, method |-> res[i].method,
                       confidence |-> res[i].confidence,
                       description |-> transactions[i].description,
                       amount |-> transactions[i].amount,
                       type |-> transactions[i].type]]
         ELSE categorization_history
    /\ IF \E i \in 1..Len(res) : res[i].raised
       THEN /\ pc' = "failed_categorize"
            /\ UNCHANGED <<transactions, categorization>>
       ELSE /\ pc' = "categorized"
            /\ categorization' = res
            /\ transactions' =
                 [i \in 1..Len(transactions) |->
                    [transactions[i] EXCEPT !.category = res[i].category]]

\* CategoryManager.categorize_dataframe in the application, which never fits
\* the classifier: the rule engine is called with use_ai=False and its result
\* stands, and every result is appended to the call history
CategorizeDataframe ==
  /\ pc = "parsed"
  /\ Len(transactions) > 0
  /\ CategorizeAll(FALSE, [i \in 1..Len(transactions) |-> NoCategory],
                   "rule_based")
  /\ UNCHANGED <<text, stats, journal_entries, ledger_accounts,
                 opening_balances, parse_bank_type, transaction_matches,
                 api_vars>>

\* RuleEngine.categorize_dataframe(transactions_df, use_ai)
RuleCategorizeDataframe ==
  /\ pc = "parsed"
  /\ Len(transactions) > 0
  /\ \E use_ai \in BOOLEAN :
       \E f \in [SimilarityRows(transactions, use_ai) ->
              {NoCategory, <<"f", "o", "o", "d", "_", "e", "x", "p", "e", "n", "s", "e">>, <<"b", "a", "n", "k", "_", "t", "r", "a", "n", "s", "f", "e", "r">>}] :
         CategorizeAll(use_ai,
                       [i \in 1..Len(transactions) |->
                          IF i \in DOMAIN f THEN f[i] ELSE NoCategory],
                       "rule_engine")
  /\ UNCHANGED <<text, stats, journal_entries, ledger_accounts,
                 opening_balances, parse_bank_type, transaction_matches,
                 api_vars>>

(***************************************************************************)
(* Journal generation and ledger posting                                   *)
(***************************************************************************)
\* JournalEntryGenerator.generate_all_entries(transactions_df)
GenerateAllEntries ==
  /\ pc = "categorized"
  /\ \E g \in {generate_all_entries(default_account_mapping, transactions)} :
       IF g.raised
       THEN /\ pc' = "failed_generate"
            /\ UNCHANGED journal_entries
       ELSE /\ pc' = "generated"
            /\ journal_entries' = g.entries
  /\ UNCHANGED <<text, stats, transactions, categorization, cat_use_ai,
                 cat_similarity, ledger_accounts, opening_balances,
                 parse_bank_type, transaction_matches, categorization_history,
                 api_vars>>

\* LedgerManager.update_ledger(journal_entries)
UpdateLedger ==
  /\ pc = "generated"
  /\ ledger_accounts' = update_ledger(ledger_accounts, journal_entries)
  /\ pc' = "posted"
  /\ UNCHANGED <<text, stats, transactions, categorization, cat_use_ai,
                 cat_similarity, journal_entries, opening_balances,
                 parse_bank_type, transaction_matches, categorization_history,
                 api_vars>>

\* the application is run again (main() builds a new AccountingApp)
Restart ==
  /\ pc \in {"posted", "failed_categorize", "failed_generate"}
       \/ (pc = "parsed" /\ Len(transactions) = 0)
  /\ pc' = "idle"
  /\ text' = << >>
  /\ stats' = reset_stats
  /\ transactions' = << >>
  /\ categorization' = << >>
  /\ cat_use_ai' = FALSE
  /\ cat_similarity' = << >>
  /\ journal_entries' = << >>
  /\ ledger_accounts' = << >>
  /\ opening_balances' = << >>
  /\ parse_bank_type' = "None"
  /\ transaction_matches' = << >>
  /\ categorization_history' = << >>
  /\ UNCHANGED api_vars

Next ==
  \/ ParseTransactions
  \/ CategorizeDataframe
  \/ RuleCategorizeDataframe
  \/ GenerateAllEntries
  \/ UpdateLedger
  \/ Restart

Spec == Init /\ [][Next]_vars

(***************************************************************************)
(* A CategoryManager used directly: set_ai_mode, train_ai_model,           *)
(* categorize_transaction and add_feedback in any order                    *)
(***************************************************************************)
\* the number of calls followed on an object that is used directly
MaxCalls == 3

\* the state of the application pipeline, which stays as constructed while an
\* object is used directly
pipeline_vars ==
  <<pc, text, stats, transactions, categorization, cat_use_ai, cat_similarity,
    journal_entries, parse_bank_type, transaction_matches>>

\* the (description, amount, transaction_type) arguments of
\* categorize_transaction
CmArgs ==
  {[description |-> <<"x", "y", "z">>, amount |-> Num(10000), type |-> <<"C", "R">>],
   [description |-> <<"x", "y", "z">>, amount |-> Num(75000), type |-> <<"D", "R">>],
   [description |-> <<"f", "o", "o", "d", " ", "a", "t", "m">>, amount |-> Num(35050), type |-> <<"D", "R">>]}

\* CategoryManager.set_ai_mode(enabled)
SetAiMode ==
  /\ \E enabled \in BOOLEAN : cm_use_ai' = enabled
  /\ UNCHANGED <<cm_is_trained, cm_model, cm_result, categorization_history,
                 amount_in, text_blocks, returned_stats, rule_engine,
                 mapping_file, generator_mapping, generated, amount_out,
                 amount_fmt, amount_back, raw_text, api_calls, pipeline_vars,
                 ledger_accounts, opening_balances>>

\* CategoryManager.train_ai_model(training_data): AIClassifier.train fits a
\* classifier and AI mode is switched on, or train returns an 'error' having
\* fitted nothing.  A fitted classifier is deterministic, so it is a function
\* from the description to what predict_single(description,
\* return_confidence=True) returns, a category and the largest class
\* probability in hundredths.
TrainAiModel ==
  /\ api_calls < MaxCalls
  /\ api_calls' = api_calls + 1
  /\ \/ \E model \in
            [{a.description : a \in CmArgs} ->
            {[category |-> <<"f", "o", "o", "d", "_", "e", "x", "p", "e", "n", "s", "e">>, confidence |-> 71],
             [category |-> <<"b", "a", "n", "k", "_", "t", "r", "a", "n", "s", "f", "e", "r">>, confidence |-> 70],
             [category |-> <<"s", "a", "l", "a", "r", "y", "_", "i", "n", "c", "o", "m", "e">>, confidence |-> 100]}] :
          /\ cm_model' = model
          /\ cm_is_trained' = TRUE
          /\ cm_use_ai' = TRUE
     \/ UNCHANGED <<cm_model, cm_is_trained, cm_use_ai>>
  /\ UNCHANGED <<cm_result, categorization_history, amount_in, text_blocks,
                 returned_stats, rule_engine, mapping_file, generator_mapping,
                 generated, amount_out, amount_fmt, amount_back, raw_text,
                 pipeline_vars, ledger_accounts, opening_balances>>

\* categorize_transaction with online learning: the category of the latest
\* feedback entry recorded for the description replaces the computed one
CategorizeTransaction_learning ==
  /\ api_calls < MaxCalls
  /\ api_calls' = api_calls + 1
  /\ \E a \in CmArgs :
       \E r \in {categorize_transaction(categorization_history, cm_use_ai,
                                        cm_is_trained, cm_model, a.description,
                                        a.amount, a.type)} :
         LET fb == {i \in 1..Len(categorization_history) :
                      /\ "correct_category" \in DOMAIN categorization_history[i]
                      /\ categorization_history[i].description = a.description}
             last == CHOOSE i \in fb : \A j \in fb : j <= i
             learned ==
               IF fb = {} THEN r.result
               ELSE [r.result EXCEPT
                       !.category = categorization_history[last].correct_category]
         IN /\ cm_result' = learned
            /\ categorization_history' = Append(categorization_history, learned)
  /\ UNCHANGED <<cm_use_ai, cm_is_trained, cm_model, amount_in, text_blocks,
                 returned_stats, rule_engine, mapping_file, generator_mapping,
                 generated, amount_out, amount_fmt, amount_back, raw_text,
                 pipeline_vars, ledger_accounts, opening_balances>>

\* CategoryManager.categorize_transaction(description, amount,
\* transaction_type)
CategorizeTransaction ==
  /\ api_calls < MaxCalls
  /\ api_calls' = api_calls + 1
  /\ \E a \in CmArgs :
       \E r \in {categorize_transaction(categorization_history, cm_use_ai,
                                        cm_is_trained, cm_model, a.description,
                                        a.amount, a.type)} :
         /\ cm_result' = r.result
         /\ categorization_history' = r.history
  /\ UNCHANGED <<cm_use_ai, cm_is_trained, cm_model, amount_in, text_blocks,
                 returned_stats, rule_engine, mapping_file, generator_mapping,
                 generated, amount_out, amount_fmt, amount_back, raw_text,
                 pipeline_vars, ledger_accounts, opening_balances>>

\* CategoryManager.add_feedback(transaction_data, correct_category) with the
\* dict the last categorize_transaction call returned, or with an empty dict
AddFeedback ==
  /\ api_calls < MaxCalls
  /\ api_calls' = api_calls + 1
  /\ \E correct_category \in {<<"f", "o", "o", "d", "_", "e", "x", "p", "e", "n", "s", "e">>, <<"s", "a", "l", "a", "r", "y", "_", "i", "n", "c", "o", "m", "e">>} :
       categorization_history' =
         add_feedback(categorization_history, cm_result, correct_category,
                      api_calls)
  /\ UNCHANGED <<cm_use_ai, cm_is_trained, cm_model, cm_result, amount_in,
                 text_blocks, returned_stats, rule_engine, mapping_file,
                 generator_mapping, generated, amount_out, amount_fmt,
                 amount_back, raw_text, pipeline_vars, ledger_accounts,
                 opening_balances>>

CategoryNext ==
  \/ SetAiMode
  \/ TrainAiModel
  \/ CategorizeTransaction
  \/ AddFeedback

CategorySpec == Init /\ [][CategoryNext]_vars

(***************************************************************************)
(* AmountParser.parse_amount applied to one amount string                  *)
(***************************************************************************)
\* format_amount with one decimal place, '{:,.1f}'
format_amount_one_decimal(amount, include_currency) ==
  IF amount.k = "None" THEN <<"N", "o", "n", "e">>
  ELSE LET a == IF amount.k = "num" /\ amount.v < 0
                THEN Num(0 - amount.v) ELSE amount
           f == FormatFixed2(a)
           formatted == IF amount.k = "nan" THEN f ELSE SubSeq(f, 1, Len(f) - 1)
           signed == IF amount.k = "num" /\ amount.v < 0
                     THEN <<"(">> \o formatted \o <<")">> ELSE formatted
       IN IF include_currency THEN RupeeMojibake \o signed ELSE signed

\* AmountParser.format_amount; abs(None) raises TypeError and the except
\* branch returns str(amount)
format_amount(amount, include_currency) ==
  IF amount.k = "None" THEN <<"N", "o", "n", "e">>
  ELSE LET a == IF amount.k = "num" /\ amount.v < 0
                THEN Num(0 - amount.v) ELSE amount
           formatted == FormatFixed2(a)
           signed == IF amount.k = "num" /\ amount.v < 0
                     THEN <<"(">> \o formatted \o <<")">> ELSE formatted
       IN IF include_currency THEN RupeeMojibake \o signed ELSE signed

(***************************************************************************)
(* TransactionParser used directly                                         *)
(***************************************************************************)
\* parse_transactions_from_blocks(text_blocks, bank_type): parse_transactions
\* is called for every block in turn, each call resetting self.stats and
\* sorting the rows of its block, and the rows of all blocks are collected.
\* _reset_stats binds self.stats to a new dict, so a dict handed out before
\* is no longer the parser's.
ParseTransactionsFromBlocks ==
  /\ pc = "idle"
  /\ api_calls < MaxCalls
  /\ api_calls' = api_calls + 1
  /\ \E n \in 0..2, bank_type \in {"auto", "generic"} :
       \E blocks \in [1..n -> {<<l>> : l \in {l \in InputLines :
                                   /\ Len(l) = 4
                                   /\ \/ l[3] \in {<<"2", "0", "0", "0", ".", "0", "0">>, <<"7", "5", "0", ".", "0", "0">>}
                                      \/ l[1] = <<"S", "B", "I">>}}
                                \cup {<< <<<<"2", "0", "/", "0", "3", "/", "2", "0", "2", "4">>>>,
                                         <<<<"x", "y", "z">>, <<"7", "5", "0", ".", "0", "0">>, <<"D", "R">>>> >>}] :
         \E rs \in {SubSeq([i \in 1..n |-> ParseResult(blocks[i], bank_type)],
                           1, n)} :
           \E perms \in [1..n -> UNION {Permutations(1..Len(rs[i].rows)) :
                                         i \in 1..n}] :
              LET frame(i) == [k \in 1..Len(rs[i].rows) |->
                                 rs[i].rows[perms[i][k]]]
                  all_transactions[i \in 0..n] ==
                    IF i = 0 THEN << >>
                    ELSE all_transactions[i - 1] \o frame(i)
              IN /\ \A i \in 1..n :
                      /\ DOMAIN perms[i] = 1..Len(rs[i].rows)
                      /\ IsSortOrder(rs[i].rows, perms[i])
                 /\ text_blocks' = blocks
                 /\ transactions' = all_transactions[n]
                 /\ IF n = 0
                    THEN UNCHANGED <<text, stats, parse_bank_type,
                                     transaction_matches, returned_stats>>
                    ELSE /\ text' = blocks[n]
                         /\ stats' = rs[n].stats
                         /\ parse_bank_type' = rs[n].bank
                         /\ transaction_matches' = rs[n].matches
                         /\ returned_stats' =
                              [returned_stats EXCEPT !.alias = FALSE]
  /\ UNCHANGED <<pc, categorization, cat_use_ai, cat_similarity,
                 journal_entries, ledger_accounts, opening_balances,
                 categorization_history, rule_engine, mapping_file,
                 generator_mapping, generated, amount_in, amount_out,
                 amount_fmt, amount_back, raw_text, cm_use_ai, cm_is_trained,
                 cm_model, cm_result>>

\* stats = parser.get_parsing_stats()
GetParsingStats ==
  /\ pc = "idle"
  /\ api_calls < MaxCalls
  /\ api_calls' = api_calls + 1
  /\ \E r \in {get_parsing_stats(stats)} :
       returned_stats' =
         [state |-> "returned", alias |-> r.alias, value |-> r.value]
  /\ UNCHANGED <<text_blocks, rule_engine, mapping_file, generator_mapping,
                 generated, amount_in, amount_out, amount_fmt, amount_back,
                 raw_text, cm_use_ai, cm_is_trained, cm_model, cm_result,
                 categorization_history, pipeline_vars, ledger_accounts,
                 opening_balances>>

\* the caller changes an item of the dict it was given:
\* stats['transactions_found'] += 1
MutateReturnedStats ==
  /\ returned_stats.state = "returned"
  /\ \E changed \in {[returned_stats.value EXCEPT !.transactions_found = @ + 1]} :
       /\ returned_stats' =
            [returned_stats EXCEPT !.state = "changed", !.value = changed]
       /\ stats' = IF returned_stats.alias THEN changed ELSE stats
  /\ UNCHANGED <<pc, text, transactions, categorization, cat_use_ai,
                 cat_similarity, journal_entries, parse_bank_type,
                 transaction_matches, ledger_accounts, opening_balances,
                 categorization_history, text_blocks, rule_engine,
                 mapping_file, generator_mapping, generated, amount_in,
                 amount_out, amount_fmt, amount_back, raw_text, cm_use_ai,
                 cm_is_trained, cm_model, cm_result, api_calls>>

ParserNext ==
  \/ ParseTransactionsFromBlocks
  \/ GetParsingStats
  \/ MutateReturnedStats

ParserSpec == Init /\ [][ParserNext]_vars

(***************************************************************************)
(* RuleEngine used directly                                                *)
(***************************************************************************)
\* RuleEngine(): the constructor loads the categories and builds the index
NewRuleEngine ==
  /\ api_calls = 0
  /\ api_calls' = 1
  /\ rule_engine' = build_keyword_matrix(default_categories)
  /\ UNCHANGED <<mapping_file, generator_mapping, generated, amount_in,
                 text_blocks, returned_stats, amount_out, amount_fmt,
                 amount_back, raw_text, cm_use_ai, cm_is_trained, cm_model,
                 cm_result, categorization_history, pipeline_vars,
                 ledger_accounts, opening_balances>>

\* add_custom_category(category_name, keywords, account_name, category_type)
\* with a new name or the name of an existing category
AddCustomCategory ==
  /\ api_calls >= 1
  /\ api_calls < MaxCalls
  /\ rule_engine.categories # << >>
  /\ api_calls' = api_calls + 1
  /\ \E category_name \in {<<"r", "e", "n", "t">>, <<"g", "i", "f", "t", "s">>, <<"f", "o", "o", "d", "_", "e", "x", "p", "e", "n", "s", "e">>},
        keywords \in {<< >>, <<<<"r", "e", "n", "t">>>>, <<<<"l", "e", "a", "s", "e">>, <<"r", "e", "n", "t">>>>},
        category_type \in {"expense", "income"} :
       rule_engine' = add_custom_category(rule_engine, category_name, keywords,
                                          <<"C", "u", "s", "t", "o", "m", " ", "A", "c", "c", "o", "u", "n", "t">>, category_type, 1)
  /\ UNCHANGED <<mapping_file, generator_mapping, generated, amount_in,
                 text_blocks, returned_stats, amount_out, amount_fmt,
                 amount_back, raw_text, cm_use_ai, cm_is_trained, cm_model,
                 cm_result, categorization_history, pipeline_vars,
                 ledger_accounts, opening_balances>>

RuleNext == NewRuleEngine \/ AddCustomCategory

RuleSpec == Init /\ [][RuleNext]_vars

(***************************************************************************)
(* JournalEntryGenerator used directly                                     *)
(***************************************************************************)
\* JournalEntryGenerator(mapping_file): the constructor loads the mapping
NewGenerator ==
  /\ api_calls = 0
  /\ api_calls' = 1
  /\ \E file \in {[state |-> "missing", content |-> << >>],
                   [state |-> "unreadable", content |-> << >>],
                   [state |-> "readable",
                    content |-> [account_types |-> default_account_types]]} :
       /\ mapping_file' = file.state
       /\ generator_mapping' = load_account_mapping(file)
  /\ UNCHANGED <<generated, amount_in, text_blocks, returned_stats,
                 rule_engine, amount_out, amount_fmt, amount_back, raw_text,
                 cm_use_ai, cm_is_trained, cm_model, cm_result,
                 categorization_history, pipeline_vars, ledger_accounts,
                 opening_balances>>

\* generate_journal_entry(transaction, category) on that generator
GenerateJournalEntry ==
  /\ api_calls >= 1
  /\ api_calls < MaxCalls
  /\ mapping_file # "None"
  /\ api_calls' = api_calls + 1
  /\ \E category \in {categories[i].name : i \in 1..Len(categories)}
                       \cup {<<"r", "e", "n", "t">>, <<"i", "n", "t", "e", "r", "e", "s", "t">>},
        type \in {<<"C", "R">>, <<"D", "R">>} :
       generated' =
         Append(generated,
                generate_journal_entry(
                  generator_mapping,
                  [date |-> parse_date(<<"0", "1", "/", "0", "2", "/", "2", "0", "2", "4">>),
                   date_original |-> <<"0", "1", "/", "0", "2", "/", "2", "0", "2", "4">>,
                   description |-> <<"x", "y", "z">>,
                   amount |-> Num(10000),
                   type |-> type],
                  category))
  /\ UNCHANGED <<mapping_file, generator_mapping, amount_in, text_blocks,
                 returned_stats, rule_engine, amount_out, amount_fmt,
                 amount_back, raw_text, cm_use_ai, cm_is_trained, cm_model,
                 cm_result, categorization_history, pipeline_vars,
                 ledger_accounts, opening_balances>>

GeneratorNext == NewGenerator \/ GenerateJournalEntry

GeneratorSpec == Init /\ [][GeneratorNext]_vars

\* the amount strings: an integer part and a fraction part, plain or in
\* parenthesis notation
AmountStrings ==
  UNION {{i \o f, <<"(">> \o i \o f \o <<")">>} :
           i \in {<<"0">>, <<"5">>, <<"1", "2">>, <<"2", "5", "0">>, <<"9", "9", "9">>, <<"1", "0", "0", "0">>,
                   <<"1", ",", "0", "0", "0">>, <<"1", ",", "2", "3", "4">>, <<"1", "2", ",", "3", "4", "5">>, <<"1", ",", "0", "0", ",", "0", "0", "0">>, <<"0", "0", "7">>,
                   <<"4", "3">>},
           f \in {<< >>, <<".", "5">>, <<".", "0", "0">>, <<".", "5", "6">>, <<".", "5", "6", "7">>}}

\* an AmountParser and a string about to be handed to it
AmountInit ==
  /\ pc = "idle"
  /\ text = << >>
  /\ stats = reset_stats
  /\ transactions = << >>
  /\ categorization = << >>
  /\ cat_use_ai = FALSE
  /\ cat_similarity = << >>
  /\ journal_entries = << >>
  /\ ledger_accounts = << >>
  /\ opening_balances = << >>
  /\ parse_bank_type = "None"
  /\ transaction_matches = << >>
  /\ cm_use_ai = FALSE
  /\ cm_is_trained = FALSE
  /\ cm_model = << >>
  /\ cm_result = << >>
  /\ categorization_history = << >>
  /\ amount_in \in AmountStrings
  /\ text_blocks = << >>
  /\ returned_stats = [state |-> "none", alias |-> FALSE, value |-> reset_stats]
  /\ rule_engine = [categories |-> << >>, category_list |-> << >>,
                  keyword_matrix |-> 0]
  /\ mapping_file = "None"
  /\ generator_mapping = << >>
  /\ generated = << >>
  /\ amount_out = NoneAmount
  /\ amount_fmt = << >>
  /\ amount_back = NoneAmount
  /\ raw_text = << >>
  /\ api_calls = 0

\* AmountParser.parse_amount(amount_str)
ParseAmount ==
  /\ api_calls = 0
  /\ api_calls' = 1
  /\ amount_out' = parse_amount(amount_in)
  /\ UNCHANGED <<amount_in, text_blocks, returned_stats, rule_engine,
                 mapping_file, generator_mapping, generated, amount_fmt,
                 amount_back, raw_text, cm_use_ai, cm_is_trained, cm_model,
                 cm_result, categorization_history, pipeline_vars,
                 ledger_accounts, opening_balances>>

\* AmountParser.format_amount(amount, include_currency) on the parsed amount
FormatAmount ==
  /\ api_calls = 1
  /\ api_calls' = 2
  /\ \E include_currency \in BOOLEAN :
       amount_fmt' = format_amount(amount_out, include_currency)
  /\ UNCHANGED <<amount_in, text_blocks, returned_stats, rule_engine,
                 mapping_file, generator_mapping, generated, amount_out,
                 amount_back, raw_text, cm_use_ai, cm_is_trained, cm_model,
                 cm_result, categorization_history, pipeline_vars,
                 ledger_accounts, opening_balances>>

\* AmountParser.parse_amount(amount_str) on the formatted amount
ReparseAmount ==
  /\ api_calls = 2
  /\ api_calls' = 3
  /\ amount_back' = parse_amount(amount_fmt)
  /\ UNCHANGED <<amount_in, text_blocks, returned_stats, rule_engine,
                 mapping_file, generator_mapping, generated, amount_out,
                 amount_fmt, raw_text, cm_use_ai, cm_is_trained, cm_model,
                 cm_result, categorization_history, pipeline_vars,
                 ledger_accounts, opening_balances>>

AmountNext ==
  \/ ParseAmount
  \/ FormatAmount
  \/ ReparseAmount

AmountSpec == AmountInit /\ [][AmountNext]_vars

(***************************************************************************)
(* A LedgerManager used directly: set_opening_balance and update_ledger in *)
(* any order                                                               *)
(***************************************************************************)
\* the journal entries handed to update_ledger: entries as the generator
\* builds them from two categorized transactions, and the same entries with
\* the amounts written as plain decimal numbers
LedgerEntries ==
  UNION {{generate_journal_entry(default_account_mapping, t, t.category),
          [generate_journal_entry(default_account_mapping, t, t.category) EXCEPT
             !.debit_amount = FormatFixed2(t.amount),
             !.credit_amount = FormatFixed2(t.amount)]} :
    t \in {[date |-> [ok |-> TRUE, y |-> 2024, m |-> 3, d |-> 15],
    date_original |-> <<"1", "5", "/", "0", "3", "/", "2", "0", "2", "4">>, description |-> <<"x", "y", "z">>,
    amount |-> Num(500000), type |-> <<"C", "R">>,
    category |-> <<"d", "o", "n", "a", "t", "i", "o", "n", "_", "i", "n", "c", "o", "m", "e">>],
   [date |-> [ok |-> TRUE, y |-> 2024, m |-> 2, d |-> 1],
    date_original |-> <<"0", "1", "/", "0", "2", "/", "2", "0", "2", "4">>, description |-> <<"f", "o", "o", "d">>,
    amount |-> Num(35050), type |-> <<"D", "R">>,
    category |-> <<"f", "o", "o", "d", "_", "e", "x", "p", "e", "n", "s", "e">>]}}

\* LedgerManager.set_opening_balance(account_name, balance) for a debit
\* account of the entries or an account nothing is posted to
SetOpeningBalance ==
  /\ api_calls < MaxCalls
  /\ api_calls' = api_calls + 1
  /\ \E account_name \in {e.debit_account : e \in LedgerEntries}
                          \cup {<<"C", "a", "p", "i", "t", "a", "l">>},
        balance \in {Num(100000), Num(0 - 25000)} :
       opening_balances' =
         set_opening_balance(opening_balances, account_name, balance)
  /\ UNCHANGED <<ledger_accounts, pipeline_vars, categorization_history,
                 cm_use_ai, cm_is_trained, cm_model, cm_result, amount_in,
                 text_blocks, returned_stats, rule_engine, mapping_file,
                 generator_mapping, generated, amount_out, amount_fmt,
                 amount_back, raw_text>>

\* LedgerManager.update_ledger(journal_entries) with a list of one entry or
\* of two different entries
UpdateLedgerEntries ==
  /\ api_calls < MaxCalls
  /\ api_calls' = api_calls + 1
  /\ \E e1 \in LedgerEntries, e2 \in LedgerEntries :
       ledger_accounts' =
         update_ledger(ledger_accounts,
                       IF e1 = e2 THEN <<e1>> ELSE <<e1, e2>>)
  /\ UNCHANGED <<opening_balances, pipeline_vars, categorization_history,
                 cm_use_ai, cm_is_trained, cm_model, cm_result, amount_in,
                 text_blocks, returned_stats, rule_engine, mapping_file,
                 generator_mapping, generated, amount_out, amount_fmt,
                 amount_back, raw_text>>

LedgerNext ==
  \/ SetOpeningBalance
  \/ UpdateLedgerEntries

LedgerSpec == Init /\ [][LedgerNext]_vars

(***************************************************************************)
(* Properties                                                              *)
(***************************************************************************)
\* C1: every journal entry returned by generate_journal_entry, and so every
\* entry of the list generate_all_entries returns, has debit_amount equal to
\* credit_amount, whatever the amount, type and category of the transaction.
C1_DebitEqualsCredit ==
  \A i \in 1..Len(journal_entries) :
    journal_entries[i].debit_amount = journal_entries[i].credit_amount

\* entries were generated for a CR and a DR transaction of different amounts,
\* one of them with paise
C1_Witness ==
  /\ pc = "generated"
  /\ \E i, j \in 1..Len(journal_entries) :
       /\ journal_entries[i].transaction_type = <<"C", "R">>
       /\ journal_entries[i].debit_amount = <<Rupee>> \o <<"5", ",", "0", "0", "0", ".", "0", "0">>
       /\ journal_entries[j].transaction_type = <<"D", "R">>
       /\ journal_entries[j].credit_amount = <<Rupee>> \o <<"3", "5", "0", ".", "5", "0">>

C3_OneEntryPerTransaction ==
  pc \in {"generated", "failed_generate", "posted"} =>
    /\ Len(journal_entries) = Len(transactions)
    /\ \A i \in 1..Len(journal_entries) :
         /\ journal_entries[i].date_original = transactions[i].date_original
         /\ journal_entries[i].transaction_type = Upper(transactions[i].type)
         /\ journal_entries[i].category = transactions[i].category

\* C4: every transaction parse_transactions returns, for any text and bank
\* hint and whichever pattern matched, has amount > 0 and type CR or DR, that
\* is, it passes validate_transaction.
C4_TransactionsValid ==
  \A i \in 1..Len(transactions) :
    /\ IsNum(transactions[i].amount)
    /\ transactions[i].amount.v > 0
    /\ transactions[i].type \in {<<"C", "R">>, <<"D", "R">>}
    /\ validate_transaction(transactions[i])

\* C5: in exact-keyword matching, when keywords of several categories occur
\* as whole words in the description, the category chosen has the lowest
\* priority number among them and, among those of that priority, is the one
\* declared first.
C5_LowestPriorityWins ==
  \A i \in 1..Len(categorization) :
    LET dl == Lower(transactions[i].description)
        M == {c \in 1..Len(categories) :
                \E k \in 1..Len(categories[c].keywords) :
                   ContainsWord(dl, categories[c].keywords[k])}
    IN M # {} =>
         \E c \in M :
           /\ categorization[i].category = categories[c].name
           /\ \A d \in M :
                \/ categories[c].priority < categories[d].priority
                \/ /\ categories[c].priority = categories[d].priority
                   /\ c <= d

\* a row matched a priority-2 category declared before the priority-1
\* category that was chosen, and another row matched two priority-1
\* categories of which the first declared was chosen
C5_Witness ==
  /\ pc = "categorized"
  /\ \E i, j \in 1..Len(categorization) :
       /\ transactions[i].description = <<"f", "o", "o", "d", " ", "a", "t", "m">>
       /\ categorization[i].category = <<"c", "a", "s", "h", "_", "w", "i", "t", "h", "d", "r", "a", "w", "a", "l">>
       /\ transactions[j].description = <<"s", "a", "l", "a", "r", "y", " ", "n", "e", "f", "t">>
       /\ categorization[j].category = <<"s", "a", "l", "a", "r", "y", "_", "i", "n", "c", "o", "m", "e">>

\* C6: categorize_transaction returns the result of the first stage that
\* succeeds in the order exact keyword match, pattern match, similarity match
\* (only when the statistical mode is on), amount heuristics, default
\* (donation_income for CR, miscellaneous otherwise); a later stage's result
\* is never returned when an earlier stage matched, and a category is always
\* returned.
C6_CascadeAlwaysReturns ==
  /\ pc # "failed_categorize"
  /\ \A i \in 1..Len(categorization) :
       LET row == transactions[i]
           dl == Lower(row.description)
           exact == exact_keyword_match(categories, dl)
           pat == pattern_match(categories, dl)
       IN categorization[i].category =
            IF exact # NoCategory THEN exact
            ELSE IF pat # NoCategory THEN pat
            ELSE IF cat_use_ai /\ cat_similarity[i] # NoCategory
                 THEN cat_similarity[i]
            ELSE IF amount_based_heuristics(dl, row.amount, row.type)
                      # NoCategory
                 THEN amount_based_heuristics(dl, row.amount, row.type)
            ELSE IF row.type = <<"C", "R">> THEN <<"d", "o", "n", "a", "t", "i", "o", "n", "_", "i", "n", "c", "o", "m", "e">>
            ELSE <<"m", "i", "s", "c", "e", "l", "l", "a", "n", "e", "o", "u", "s">>

\* C7: for every generated journal entry and every category, resolved through
\* the per-category table or through the accounting-type template: for type
\* CR the debit account is the bank account and the credit account is the
\* category's account; for type DR the debit account is the category's
\* account and the credit account is the bank account (an account name may
\* carry the "To " of the credit side).
C7_AccountDirection ==
  \A i \in 1..Len(journal_entries) :
    LET e == journal_entries[i]
        bank == {<<"B", "a", "n", "k", " ", "A", "c", "c", "o", "u", "n", "t">>, <<"T", "o", " ", "B", "a", "n", "k", " ", "A", "c", "c", "o", "u", "n", "t">>}
        own == {CategoryData(categories, e.category).account_name,
                <<"T", "o", " ">> \o CategoryData(categories, e.category).account_name,
                Title(e.category), <<"T", "o", " ">> \o Title(e.category)}
    IN IF e.transaction_type = <<"C", "R">>
       THEN e.debit_account \in bank /\ e.credit_account \in own
       ELSE e.debit_account \in own /\ e.credit_account \in bank

\* C8: a matched line whose amount string cannot be normalized to a number is
\* discarded: it is not among the transactions parse_transactions returns
\* and parsing_errors counts it, so no returned transaction has a missing
\* amount.
C8_UnparsableAmountDiscarded ==
  /\ \A i \in 1..Len(transactions) :
       /\ parse_amount(transactions[i].amount_original) # NoneAmount
       /\ IsNum(transactions[i].amount)
  /\ stats.parsing_errors = stats.transactions_found - Len(transactions)

\* C9 as stated: after parse_transactions on a text of one malformed line (a
\* line with no date token or no amount token) the result is empty and
\* stats.parsing_errors = 1.
C9_MalformedLineCountedOnce ==
  (/\ pc = "parsed"
   /\ Len(text) = 1
   /\ \/ \A k \in 1..Len(text[1]) : ~DateRe(text[1][k], {"/", "-"}, 2)
      \/ \A k \in 1..Len(text[1]) : ~AmountRe(text[1][k]))
    => (Len(transactions) = 0 /\ stats.parsing_errors = 1)

\* C9: after parse_transactions on a text of one malformed line (a line with
\* no date token or no amount token) the result is empty and the line is
\* skipped without being counted: stats.parsing_errors = 0, with
\* total_lines_processed = 1 and transactions_found = 0.
C9_MalformedLineSkipped ==
  (/\ pc = "parsed"
   /\ Len(text) = 1
   /\ \/ \A k \in 1..Len(text[1]) : ~DateRe(text[1][k], {"/", "-"}, 2)
      \/ \A k \in 1..Len(text[1]) : ~AmountRe(text[1][k]))
    => /\ Len(transactions) = 0
       /\ stats.parsing_errors = 0
       /\ stats.total_lines_processed = 1
       /\ stats.transactions_found = 0

\* the text of the single line "15/03/2024 xyz CR", which has no amount
\* token, was parsed
C9_Witness ==
  /\ pc = "parsed"
  /\ text = << <<<<"1", "5", "/", "0", "3", "/", "2", "0", "2", "4">>, <<"x", "y", "z">>, <<"C", "R">>>> >>
  /\ stats.total_lines_processed = 1

\* C10: nothing aborts the pipeline on non-empty input: for every transaction
\* parse_transactions emits, the categorization and the journal generation
\* that follow complete without raising.
C10_PipelineNeverRaises ==
  pc \notin {"failed_categorize", "failed_generate"}

\* C11: when parse_transactions returns, the matches it got from
\* find_all_transactions are, in line order, one per line that some pattern
\* matches, and each is the groups
\* of the first pattern matching the line when the patterns of the bank are
\* tried in their order before the generic patterns in theirs (so a generic
\* pattern's groups appear only for a line no pattern of the bank matches)
C11_FirstPatternInOrder ==
  pc = "parsed" =>
    LET pats == BankPatterns(parse_bank_type) \o BankPatterns("generic")
        hit(k) == {i \in 1..Len(pats) : PatternMatch(pats[i], text[k]) # NoneSeq}
        first(k) == CHOOSE i \in hit(k) : \A j \in hit(k) : i <= j
        lines == {k \in 1..Len(text) : hit(k) # {}}
        nth(n) == CHOOSE k \in lines : Cardinality({j \in lines : j < k}) = n - 1
    IN /\ Len(transaction_matches) = Cardinality(lines)
       /\ \A n \in 1..Len(transaction_matches) :
            transaction_matches[n] = PatternMatch(pats[first(nth(n))], text[nth(n)])

\* a line matched by a pattern of the hinted bank and by a generic pattern
\* with other groups, for which the groups of the bank's pattern were returned
C11_Witness ==
  /\ pc = "parsed"
  /\ parse_bank_type = "axis"
  /\ Len(text) = 1
  /\ PatternMatch("axis1", text[1]) # NoneSeq
  /\ PatternMatch("generic1", text[1]) # NoneSeq
  /\ PatternMatch("generic1", text[1]) # PatternMatch("axis1", text[1])
  /\ transaction_matches = <<PatternMatch("axis1", text[1])>>

\* C12: the confidence of every categorized row is 0.9 if a keyword of the
\* assigned category is a whole word of the lower-cased description, else 0.7
\* if a keyword is a substring of it, else 0.3 if the category is
\* miscellaneous or donation_income, else 0.5, whichever stage of the cascade
\* assigned the category; so it is one of 0.3, 0.5, 0.7, 0.9
C12_ConfidenceByKeywords ==
  \A i \in 1..Len(categorization) :
    LET dl == Lower(transactions[i].description)
        cat == categorization[i].category
        kws == UNION {{categories[c].keywords[k] : k \in 1..Len(categories[c].keywords)} :
                        c \in {c \in 1..Len(categories) : categories[c].name = cat}}
        expected ==
          IF \E kw \in kws : ContainsWord(dl, kw) THEN 90
          ELSE IF \E kw \in kws : Contains(dl, kw) THEN 70
          ELSE IF cat \in {<<"m", "i", "s", "c", "e", "l", "l", "a", "n", "e", "o", "u", "s">>, <<"d", "o", "n", "a", "t", "i", "o", "n", "_", "i", "n", "c", "o", "m", "e">>} THEN 30
          ELSE 50
    IN /\ categorization[i].confidence = expected
       /\ categorization[i].confidence \in {30, 50, 70, 90}

\* two rows categorized by different stages: one by a whole-word keyword
\* (0.9), one by the similarity stage with no keyword in it (0.5)
C12_Witness ==
  /\ pc = "categorized"
  /\ Len(categorization) = 2
  /\ \E i, j \in 1..2 :
       /\ cat_similarity[i] = NoCategory
       /\ categorization[i].confidence = 90
       /\ cat_similarity[j] # NoCategory
       /\ categorization[j].category = cat_similarity[j]
       /\ categorization[j].confidence = 50

\* C13: whenever categorize_transaction returns, the result has method 'ai'
\* only if AI mode is on, the classifier is fitted and its confidence for the
\* description is above 0.7 (the result then carries its category); and if
\* AI mode is off, or the classifier is not fitted, or its confidence is at
\* most 0.7, the result is the rule engine's category with method
\* 'rule_based' and the rule-based confidence
C13_AiOverrideOnlyAboveThreshold ==
  [][(/\ Len(categorization_history') = Len(categorization_history) + 1
      /\ categorization_history'[Len(categorization_history')] = cm_result')
     => LET r == cm_result'
            accepted == /\ cm_use_ai
                        /\ cm_is_trained
                        /\ cm_model[r.description].confidence > 70
            rule == rule_categorize_transaction(
                      categories, r.description, r.amount, r.type, FALSE,
                      keyword_matrix_built, NoCategory).category
        IN /\ r.method = "ai" =>
                accepted /\ r.category = cm_model[r.description].category
           /\ ~accepted =>
                /\ r.category = rule
                /\ r.method = "rule_based"
                /\ r.confidence = calculate_confidence(categories, r.description, rule)]_vars

\* with AI mode on and a fitted classifier, a call whose classifier confidence
\* was exactly 0.7 returned the rule-based result, after a call whose
\* classifier confidence was higher returned the classifier's category
C13_Witness ==
  /\ cm_use_ai
  /\ cm_is_trained
  /\ Len(categorization_history) = 2
  /\ "method" \in DOMAIN categorization_history[1]
  /\ categorization_history[1].method = "ai"
  /\ categorization_history[1].confidence > 70
  /\ cm_result = categorization_history[2]
  /\ cm_model[cm_result.description].confidence = 70
  /\ cm_result.method = "rule_based"

\* C14: on a CategoryManager used through set_ai_mode, train_ai_model,
\* categorize_transaction and add_feedback, every call leaves the earlier
\* history entries in place (the history only grows), and what
\* categorize_transaction returns for a (description, amount, type) is what a
\* manager with the same AI mode and the same classifier but an empty history
\* returns for it: neither earlier calls nor feedback change the result
C14_NoLearningLoop ==
  [][/\ Len(categorization_history') >= Len(categorization_history)
     /\ SubSeq(categorization_history', 1, Len(categorization_history))
          = categorization_history
     /\ (/\ Len(categorization_history') = Len(categorization_history) + 1
         /\ categorization_history'[Len(categorization_history')] = cm_result')
        => cm_result' =
             categorize_transaction(<< >>, cm_use_ai, cm_is_trained, cm_model,
                                    cm_result'.description, cm_result'.amount,
                                    cm_result'.type).result]_vars

\* a transaction categorized, feedback naming another category recorded for
\* it, and the same transaction categorized again with the first result
C14_Witness ==
  /\ Len(categorization_history) = 3
  /\ "method" \in DOMAIN categorization_history[1]
  /\ "correct_category" \in DOMAIN categorization_history[2]
  /\ categorization_history[2].description = categorization_history[1].description
  /\ categorization_history[2].correct_category # categorization_history[1].category
  /\ categorization_history[3] = categorization_history[1]
  /\ cm_result = categorization_history[3]

\* C15: when parse_transactions returns, the bank detected for a text
\* parsed with hint 'auto' is the first profile, in the order hdfc, sbi, icici, axis of the registration, one of
\* whose bank-name tokens occurs in the text compared case-insensitively,
\* wherever the tokens stand in the text; it is 'generic' when no token
\* occurs, so it is always a registered profile or 'generic'
C15_FirstRegisteredProfile ==
  (pc = "parsed" /\ stats.bank_type_detected # "None") =>
    LET occurs(i) ==
          \E k \in 1..Len(bank_indicators[i].keywords), l \in 1..Len(text) :
            Contains(Upper(JoinTokens(text[l])),
                     Upper(bank_indicators[i].keywords[k]))
        found == {i \in 1..Len(bank_indicators) : occurs(i)}
    IN /\ <<bank_indicators[1].bank, bank_indicators[2].bank,
             bank_indicators[3].bank, bank_indicators[4].bank>>
            = <<"hdfc", "sbi", "icici", "axis">>
       /\ found = {} => stats.bank_type_detected = "generic"
       /\ \A i \in found :
            (\A j \in found : i <= j) =>
              stats.bank_type_detected = bank_indicators[i].bank
       /\ stats.bank_type_detected \in {"hdfc", "sbi", "icici", "axis", "generic"}

\* a text whose first line names SBI before HDFC, detected as hdfc
C15_Witness ==
  /\ pc = "parsed"
  /\ text[1][1] = <<"S", "B", "I">>
  /\ text[1][2] = <<"H", "D", "F", "C">>
  /\ stats.bank_type_detected = "hdfc"
  /\ parse_bank_type = "hdfc"

\* C16: when no bank-name token occurs in a text parsed with hint 'auto', the
\* bank detected is the profile whose date format has the most matches in the
\* text, the first enumerated profile on a tie, and 'generic' only when no
\* date format matches either
C16_DateFormatFallback ==
  (/\ pc # "idle"
   /\ stats.bank_type_detected # "None"
   /\ \A i \in 1..Len(bank_indicators) :
        \A k \in 1..Len(bank_indicators[i].keywords), l \in 1..Len(text) :
          ~Contains(Upper(JoinTokens(text[l])),
                    Upper(bank_indicators[i].keywords[k])))
  => stats.bank_type_detected =
       IF detect_by_date_format(text) # "None"
       THEN detect_by_date_format(text) ELSE "generic"

\* C17: parse_amount of an amount d in parenthesis notation, (d), where
\* parse_amount(d) is a positive amount, is the negation of parse_amount(d)
C17_ParenthesisIsNegative ==
  (/\ api_calls = 1
   /\ amount_in \in AmountStrings
   /\ amount_in[1] = "("
   /\ amount_in[Len(amount_in)] = ")"
   /\ IsNum(parse_amount(SubSeq(amount_in, 2, Len(amount_in) - 1)))
   /\ parse_amount(SubSeq(amount_in, 2, Len(amount_in) - 1)).v > 0)
  => amount_out = Num(0 - parse_amount(SubSeq(amount_in, 2, Len(amount_in) - 1)).v)

C19_ClosingBalancesEqual ==
  LET tb == get_trial_balance(ledger_accounts, opening_balances)
      debit_side == SumAmounts([i \in 1..Len(tb) |->
                      IF tb[i].balance_type = "Debit"
                      THEN tb[i].closing_balance ELSE Num(0)])
      credit_side == SumAmounts([i \in 1..Len(tb) |->
                       IF tb[i].balance_type = "Credit"
                       THEN tb[i].closing_balance ELSE Num(0)])
  IN /\ IsNum(debit_side) /\ IsNum(credit_side)
     /\ credit_side.v <= 0
     /\ debit_side.v = 0 - credit_side.v

\* C19 (amended): after any sequence of set_opening_balance and
\* update_ledger calls, the closing balances of the Debit accounts exceed the
\* absolute value of the sum of the closing balances of the Credit accounts
\* by the sum of the opening balances of the accounts of the trial balance;
\* the two sides are equal when no listed account has an opening balance
C19_ClosingBalancesDifferByOpenings ==
  LET tb == get_trial_balance(ledger_accounts, opening_balances)
      debit_side == SumAmounts([i \in 1..Len(tb) |->
                      IF tb[i].balance_type = "Debit"
                      THEN tb[i].closing_balance ELSE Num(0)])
      credit_side == SumAmounts([i \in 1..Len(tb) |->
                       IF tb[i].balance_type = "Credit"
                       THEN tb[i].closing_balance ELSE Num(0)])
      openings == SumAmounts([i \in 1..Len(tb) |->
                    OpeningBalance(opening_balances, tb[i].account)])
  IN /\ IsNum(debit_side) /\ IsNum(credit_side) /\ IsNum(openings)
     /\ debit_side.v + credit_side.v = openings.v
     /\ (\A i \in 1..Len(tb) :
           OpeningBalance(opening_balances, tb[i].account) = Num(0))
        => debit_side.v = 0 - credit_side.v

\* an amount was posted between two accounts, one of which had been given
\* an opening balance
C19_Witness ==
  /\ Len(ledger_accounts) >= 2
  /\ \E i \in 1..Len(ledger_accounts) :
       /\ OpeningBalance(opening_balances, ledger_accounts[i].account) # Num(0)
       /\ \E k \in 1..Len(ledger_accounts[i].postings) :
            ledger_accounts[i].postings[k].debit.v > 0

\* C20: with the default category rules, a CR transaction with description
\* 'NEFT from John Doe' and amount 5000.00 is categorized donation_income
\* with confidence 0.3, and its journal entry debits 'Bank Account', credits
\* the account mapped to donation_income and carries 5000.00 on both sides
C20_NeftCreditExample ==
  pc \in {"generated", "posted"} =>
    \A i \in 1..Len(transactions) :
      (/\ transactions[i].description = <<"N", "E", "F", "T", " ", "f", "r", "o", "m", " ", "J", "o", "h", "n", " ", "D", "o", "e">>
       /\ transactions[i].type = <<"C", "R">>
       /\ transactions[i].amount = Num(500000))
      => /\ categorization[i].category = <<"d", "o", "n", "a", "t", "i", "o", "n", "_", "i", "n", "c", "o", "m", "e">>
         /\ categorization[i].confidence = 30
         /\ journal_entries[i].debit_account = <<"B", "a", "n", "k", " ", "A", "c", "c", "o", "u", "n", "t">>
         /\ journal_entries[i].credit_account =
              CategoryData(categories, <<"d", "o", "n", "a", "t", "i", "o", "n", "_", "i", "n", "c", "o", "m", "e">>).account_name
         /\ generator_parse_amount(journal_entries[i].debit_amount) = Num(500000)
         /\ generator_parse_amount(journal_entries[i].credit_amount) = Num(500000)

C23_RunningBalance ==
  \A i \in 1..Len(ledger_accounts) :
    LET name == ledger_accounts[i].account
        ps == ledger_accounts[i].postings
        set == {j \in 1..Len(opening_balances) :
                  opening_balances[j].account = name}
        opening == IF set = {} THEN 0
                   ELSE opening_balances[CHOOSE j \in set : TRUE].balance.v
        net[k \in 0..Len(ps)] ==
          IF k = 0 THEN 0 ELSE net[k - 1] + ps[k].debit.v - ps[k].credit.v
        balance == RunningBalances(ps, OpeningBalance(opening_balances, name))
    IN /\ Len(balance) = Len(ps)
       /\ \A k \in 1..Len(ps) : balance[k] = Num(opening + net[k])
       /\ get_trial_balance(ledger_accounts, opening_balances)[i]
            .closing_balance = Num(opening + net[Len(ps)])

\* an account with an opening balance received two postings of amounts that
\* are not zero
C23_Witness ==
  \E i \in 1..Len(ledger_accounts) :
    LET ps == ledger_accounts[i].postings IN
    /\ OpeningBalance(opening_balances, ledger_accounts[i].account) # Num(0)
    /\ Len(ps) >= 2
    /\ ps[1].debit.v - ps[1].credit.v # 0
    /\ ps[2].debit.v - ps[2].credit.v # 0

\* C24: once the journal entries of the parsed transactions are posted, every
\* entry generated from a transaction with an amount a > 0 has left a debit
\* of a on its debit account and a credit of a on its credit account
C24_PostingPreservesAmounts ==
  pc = "posted" =>
    \A i \in 1..Len(journal_entries) :
      (IsNum(transactions[i].amount) /\ transactions[i].amount.v > 0) =>
        LET e == journal_entries[i]
            d == AccountIndex(ledger_accounts, e.debit_account)
            c == AccountIndex(ledger_accounts, e.credit_account)
        IN /\ d # 0
           /\ c # 0
           /\ \E k \in 1..Len(ledger_accounts[d].postings) :
                /\ ledger_accounts[d].postings[k].type = "debit"
                /\ ledger_accounts[d].postings[k].debit = transactions[i].amount
           /\ \E k \in 1..Len(ledger_accounts[c].postings) :
                /\ ledger_accounts[c].postings[k].type = "credit"
                /\ ledger_accounts[c].postings[k].credit = transactions[i].amount

\* C25: the text clean_extracted_text returns has no line break, whatever
\* the number of lines of the extracted text, and parse_transactions on it
\* returns at most one transaction
C25_CleanedTextIsOneLine ==
  raw_text # << >> => (Len(text) <= 1 /\ Len(transactions) <= 1)

\* an extracted text of two lines, each a transaction the parser reads when
\* it is given alone, was cleaned and parsed to one transaction
C25_Witness ==
  /\ Len(raw_text) = 2
  /\ raw_text[1] = <<<<"2", "0", "/", "0", "3", "/", "2", "0", "2", "4">>, <<"x", "y", "z">>, <<"7", "5", "0", ".", "0", "0">>, <<"D", "R">>>>
  /\ raw_text[2] = raw_text[1]
  /\ text = <<raw_text[1] \o raw_text[2]>>
  /\ Len(transactions) = 1

\* C26: a journal entry generated for a category that has no entry of its own
\* in specific_accounts takes its account names from the template of the
\* category type with the placeholder replaced: neither the debit nor the
\* credit account of the entry holds the text '{account_name}', for CR and
\* for DR transactions
C26_NoPlaceholderLeft ==
  \A i \in 1..Len(generated) :
    LET sp == IF "specific_accounts" \in DOMAIN generator_mapping
              THEN generator_mapping.specific_accounts ELSE << >>
    IN (\A j \in 1..Len(sp) : sp[j].category # generated[i].category)
       => /\ ~Contains(generated[i].debit_account, Placeholder)
          /\ ~Contains(generated[i].credit_account, Placeholder)
\* C30: a generator whose mapping file exists but cannot be read or parsed
\* works with the default account mapping: every entry it generates has the
\* debit and credit account the default mapping (the one used when the file
\* is absent) gives for the entry's category and transaction type
C30_UnreadableFileGivesDefaults ==
  mapping_file = "unreadable" =>
    \A i \in 1..Len(generated) :
      <<generated[i].debit_account, generated[i].credit_account>>
        = get_account_names(load_account_mapping([state |-> "missing"]),
                            generated[i].category,
                            generated[i].transaction_type)

\* C27: a transaction wrapped across two lines, the date alone on the first
\* line and description, amount and type on the second, gives one transaction
\* from parse_transactions
C27_WrappedTransactionParsed ==
  (/\ pc = "parsed"
   /\ Len(text) = 2
   /\ Len(text[1]) = 1
   /\ parse_date(text[1][1]).ok
   /\ Len(text[2]) = 3
   /\ ~parse_date(text[2][1]).ok
   /\ IsNum(parse_amount(text[2][2]))
   /\ text[2][3] \in {<<"C", "R">>, <<"D", "R">>})
  => Len(transactions) = 1

\* C28: the keyword index of a rule engine is never stale: after any sequence
\* of add_custom_category calls, re-adding an existing name included,
\* category_list holds exactly one entry per keyword of the current
\* categories, in declaration order, each naming the category that owns the
\* keyword, and the keyword matrix has one row per entry
C28_KeywordIndexFresh ==
  rule_engine.categories # << >> =>
    LET cats == rule_engine.categories
        offset[c \in 0..Len(cats)] ==
          IF c = 0 THEN 0 ELSE offset[c - 1] + Len(cats[c].keywords)
    IN /\ \A c, d \in 1..Len(cats) : cats[c].name = cats[d].name => c = d
       /\ Len(rule_engine.category_list) = offset[Len(cats)]
       /\ \A c \in 1..Len(cats) : \A k \in 1..Len(cats[c].keywords) :
            rule_engine.category_list[offset[c - 1] + k] = cats[c].name
       /\ rule_engine.keyword_matrix = Len(rule_engine.category_list)

\* C28 witness: an existing category was re-added with other keywords and a
\* new category was added
C28_Witness ==
  /\ rule_engine.categories # << >>
  /\ Len(rule_engine.categories) = Len(default_categories) + 1
  /\ rule_engine.categories[Len(default_categories) + 1].keywords
       = <<<<"l", "e", "a", "s", "e">>, <<"r", "e", "n", "t">>>>
  /\ \E c \in 1..Len(default_categories) :
       /\ rule_engine.categories[c].name = <<"f", "o", "o", "d", "_", "e", "x", "p", "e", "n", "s", "e">>
       /\ rule_engine.categories[c].keywords = <<<<"r", "e", "n", "t">>>>

\* C29: the parsing statistics are those of the most recent parse_transactions
\* call only: before any call all counters are at their reset values, and
\* afterwards they describe the last text parsed (after
\* parse_transactions_from_blocks the last block, not the totals over the
\* blocks), whatever was parsed before and whatever the caller did to a dict
\* get_parsing_stats had returned
C29_StatsOfLastCallOnly ==
  /\ text = << >> => stats = reset_stats
  /\ text # << >> =>
       /\ stats.total_lines_processed = Len(text)
       /\ stats.transactions_found
            = Len(find_all_transactions(text, parse_bank_type))
       /\ stats.bank_type_detected \in {"None", parse_bank_type}
       /\ stats.parsing_errors = 0

\* C29 witness: two blocks with one transaction each were parsed, the
\* statistics count one line and one transaction, and the caller has changed
\* the dict get_parsing_stats returned
C29_Witness ==
  /\ Len(text_blocks) = 2
  /\ Len(transactions) = 2
  /\ text = text_blocks[2]
  /\ stats.total_lines_processed = 1
  /\ stats.transactions_found = 1
  /\ returned_stats.state = "changed"
  /\ returned_stats.value.transactions_found = 2


====
